---- MODULE Spec2Model ----
(***************************************************************************)
(* Session / room / connection coordination of the lupin game server.      *)
(*                                                                         *)
(* Spec        : the WebSocket endpoint and its handlers (join, reconnect, *)
(*               disconnect) driving RoomManager, the connection registry  *)
(*               and the per-room cleanup timer tasks.                     *)
(* SpecBus     : EventBus.publish with synchronous and asynchronous        *)
(*               handlers.                                                 *)
(* SpecResubscribe : EventBus.publish while handlers subscribe and         *)
(*               unsubscribe.                                              *)
(* SpecSession : SessionManager with a clock.                              *)
(* SpecLife    : RoomLifecycleManager's rooms and players.                 *)
(* SpecTimer   : RoomTimer and the asyncio tasks it creates.               *)
(* SpecGame    : one Room object, its players and its omok game.           *)
(* SpecReconnect : that Room object while its players play, chat,          *)
(*               disconnect and reconnect.                                 *)
(* SpecUndo    : that Room object under undo requests and responses.       *)
(* SpecChat    : one room's chat history.                                  *)
(* SpecRegistry : ConnectionManager's three dicts under its own calls.     *)
(* SpecMove    : the endpoint coroutines of one room handling moves and    *)
(*               chat messages and broadcasting their notifications.       *)
(*                                                                         *)
(* The handlers reach everything through room_manager.  Rooms, connection  *)
(* sets and cleanup timers are those of RoomManager (room_manager.py); the *)
(* websocket -> session and session -> room bindings the handlers pass and *)
(* read (add_connection with a session id, get_session_id_by_websocket,    *)
(* the replacement of a session's websocket on reconnect) are those of     *)
(* ConnectionManager (managers/connection_manager.py).  A websocket whose  *)
(* endpoint has ended leaves no trace in any of them, so its state is      *)
(* "new" again: MaxSockets bounds the websockets that are open at once.    *)
(* The registry of the event bus changes between publish calls in SpecBus  *)
(* and also during them in SpecResubscribe.  The game manager the handlers *)
(* ask room_manager for is the OmokManager that                            *)
(* RoomLifecycleManager.get_game_manager returns.                          *)
(***************************************************************************)
EXTENDS Integers, Sequences, FiniteSets, TLC

\* ---------------------------------------------------------------- bounds
MaxRooms == 2
MaxSessions == 2
MaxSockets == 2

MaxHandlers == 2
MaxPriority == 1
MaxRegistrations == 2
MaxCount == 3
MaxTicks == 3
MaxTasks == 3
MaxMutations == 2
MaxConnections == 3
TickHours == 12
MaxLcTicks == 1
LcTickMinutes == 30
\* the default of cleanup_expired_rooms' argument
default_max_inactive_minutes == 30
BoardSize == 2
WinningCount == 2
MaxGames == 1
MaxChat == 1
MaxTexts == 2
MaxChatHistory == 2
MaxAccepted == 4
\* games/omok.py
FIRST_PLAYER == 1

RoomIds == 1..MaxRooms
Sessions == 1..MaxSessions
WebSockets == 1..MaxSockets

\* Python's None (room ids, session ids and list positions start at 1)
None == 0

VARIABLES
    rooms,              \* RoomManager.rooms: room id -> Room
    next_room,          \* number of rooms created so far (ids are never reused)
    connections,        \* connections: room id -> set of websockets
    websocket_sessions, \* ConnectionManager.websocket_sessions (insertion ordered)
    session_to_room,    \* ConnectionManager.session_to_room
    room_timers,        \* RoomManager.room_timers: the room ids that have an entry
    tasks,              \* the asyncio tasks created for _cleanup_room_after_delay
    sock,               \* per websocket: the endpoint coroutine's position
                        \* ("new": no endpoint is serving this object)
    published,          \* RoomDeletedEvent objects handed to EventBus.publish
    last,               \* the last operation and its outcome
    bus_handlers,       \* EventBus._handlers: event type -> [(priority, handler)]
    bus_global_handlers, \* EventBus._global_handlers
    bus_handler_count,  \* EventBus._handler_count
    pub,                \* the publish call in progress
    sessions,           \* SessionManager.sessions
    now,                \* datetime.now(), in hours
    sess_last,          \* the last SessionManager operation and its outcome
    lc_rooms,           \* RoomLifecycleManager.rooms: room id -> Room
    lc_session_to_room, \* RoomLifecycleManager.session_to_room
    lc_last,            \* the last RoomLifecycleManager call and its outcome
    lc_now,             \* datetime.now() as the lifecycle manager reads it,
                        \* in minutes
    lc_timers,          \* RoomLifecycleManager.room_timer: the room ids that
                        \* have a pending cleanup task
    lc_seen,            \* Player.last_seen of the players of lc_rooms:
                        \* <<room id, session id>> -> minutes
    rt_timers,          \* RoomTimer.timers: room id -> task
    rt_tasks,           \* the asyncio tasks created for _cleanup_after_delay
    rt_last,            \* the last RoomTimer call or task step and its outcome
    applied,            \* the mutations made to one room, in order
    current_player,     \* game_state["current_player"] of that room
    endpoint,           \* per websocket of the room: where its endpoint
                        \* coroutine stands
    received,           \* per websocket: the game updates sent on it, in order
    attached,           \* connections[room_id] of that room
    bc_last,            \* the last step of a handler of that room
    g_rooms,            \* the rooms dict holding one Room object with its game
    g_last,             \* the last call on that room and its outcome
    ch_room,            \* one Room object with its chat_history
    ch_accepted,        \* the chat messages accepted for that room, in order
    ch_last,            \* the last chat or join of that room
    cm_connections,     \* ConnectionManager.connections of a manager of its own
    cm_websocket_sessions, \* its websocket_sessions (insertion ordered)
    cm_session_to_room, \* its session_to_room
    cm_last             \* the last call made on it

busVars == <<bus_handlers, bus_global_handlers, bus_handler_count, pub>>

sessVars == <<sessions, now, sess_last>>

coordVars == <<rooms, next_room, connections, websocket_sessions,
               session_to_room, room_timers, tasks, sock, published, last>>

lifeVars == <<lc_rooms, lc_session_to_room, lc_last, lc_now, lc_seen,
              lc_timers>>

timerVars == <<rt_timers, rt_tasks, rt_last>>

moveVars == <<applied, current_player, endpoint, received, attached, bc_last>>

gameVars == <<g_rooms, g_last>>

chatVars == <<ch_room, ch_accepted, ch_last>>

regVars == <<cm_connections, cm_websocket_sessions, cm_session_to_room,
             cm_last>>

\* what the actions of one component leave alone
notCoord ==
    <<busVars, sessVars, lifeVars, timerVars, moveVars, gameVars, chatVars,
      regVars>>

notBus ==
    <<coordVars, sessVars, lifeVars, timerVars, moveVars, gameVars, chatVars,
      regVars>>

notSess ==
    <<coordVars, busVars, lifeVars, timerVars, moveVars, gameVars, chatVars,
      regVars>>

notLife ==
    <<coordVars, busVars, sessVars, timerVars, moveVars, gameVars, chatVars,
      regVars>>

notTimer ==
    <<coordVars, busVars, sessVars, lifeVars, moveVars, gameVars, chatVars,
      regVars>>

notMove ==
    <<coordVars, busVars, sessVars, lifeVars, timerVars, gameVars, chatVars,
      regVars>>

notGame ==
    <<coordVars, busVars, sessVars, lifeVars, timerVars, moveVars, chatVars,
      regVars>>

notChat ==
    <<coordVars, busVars, sessVars, lifeVars, timerVars, moveVars, gameVars,
      regVars>>

notReg ==
    <<coordVars, busVars, sessVars, lifeVars, timerVars, moveVars, gameVars,
      chatVars>>

\* ------------------------------------------------------- dict helpers
Put(f, k, v) == [x \in (DOMAIN f) \cup {k} |-> IF x = k THEN v ELSE f[x]]

Del(f, k) == [x \in (DOMAIN f) \ {k} |-> f[x]]

EmptyDict == [x \in {} |-> None]

\* insertion-ordered dict as a sequence of <<key, value>>
OD_Keys(d) == {d[i][1] : i \in 1..Len(d)}

OD_Get(d, k) ==
    IF k \in OD_Keys(d)
    THEN LET i == CHOOSE j \in 1..Len(d) : d[j][1] = k IN d[i][2]
    ELSE None

OD_Set(d, k, v) ==
    IF k \in OD_Keys(d)
    THEN [i \in 1..Len(d) |-> IF d[i][1] = k THEN <<k, v>> ELSE d[i]]
    ELSE Append(d, <<k, v>>)

OD_Del(d, k) == SelectSeq(d, LAMBDA e : e[1] # k)

\* ------------------------------------------------------------ models.py
Player(sid, number) ==
    [session_id |-> sid, player_number |-> number, is_connected |-> TRUE]

NewRoom == [players |-> <<>>, status |-> "waiting"]

is_full(room) == Len(room.players) >= 2

PlayerIdx(room, sid) ==
    {i \in 1..Len(room.players) : room.players[i].session_id = sid}

FirstIdx(S) == CHOOSE i \in S : \A j \in S : i <= j

\* ------------------------------------------- ConnectionManager (registry)
CM_add_connection(conns, ws_sess, s2r, room_id, websocket, session_id) ==
    LET base == IF room_id \in DOMAIN conns THEN conns[room_id] ELSE {}
    IN  [conns   |-> Put(conns, room_id, base \cup {websocket}),
         ws_sess |-> IF session_id # None
                     THEN OD_Set(ws_sess, websocket, session_id) ELSE ws_sess,
         s2r     |-> IF session_id # None
                     THEN Put(s2r, session_id, room_id) ELSE s2r]

get_session_id_by_websocket(ws_sess, websocket) == OD_Get(ws_sess, websocket)

\* the session-mapping part of ConnectionManager.remove_connection
CM_drop_session_mapping(ws_sess, s2r, websocket) ==
    LET sid == OD_Get(ws_sess, websocket)
    IN  IF sid # None
        THEN [ws_sess |-> OD_Del(ws_sess, websocket), s2r |-> Del(s2r, sid)]
        ELSE [ws_sess |-> ws_sess, s2r |-> s2r]

\* first websocket, in dict order, bound to the session
OldWebsocket(ws_sess, session_id) ==
    LET hits == {i \in 1..Len(ws_sess) : ws_sess[i][2] = session_id}
    IN  IF hits = {} THEN None ELSE ws_sess[FirstIdx(hits)][1]

CM_handle_reconnection(conns, ws_sess, s2r, room_id, websocket, session_id) ==
    LET old == OldWebsocket(ws_sess, session_id)
        conns1 == IF old # None /\ room_id \in DOMAIN conns
                  THEN Put(conns, room_id, conns[room_id] \ {old}) ELSE conns
        ws1 == IF old # None THEN OD_Del(ws_sess, old) ELSE ws_sess
    IN  CM_add_connection(conns1, ws1, s2r, room_id, websocket, session_id)

\* ------------------------------------------------------------ RoomManager
room_exists(room_id) == room_id \in DOMAIN rooms

\* identifier: <<"num", n>> for str(player_number), <<"sid", s>> for a session
\* id (a UUID string, which int() rejects)
update_player_connection_status(rms, room_id, ident, is_connected) ==
    IF room_id \notin DOMAIN rms THEN rms
    ELSE LET room == rms[room_id]
             hits == IF ident[1] = "num"
                     THEN {i \in 1..Len(room.players) :
                              room.players[i].player_number = ident[2]}
                     ELSE {i \in 1..Len(room.players) :
                              room.players[i].session_id = ident[2]}
         IN  IF hits = {} THEN rms
             ELSE [rms EXCEPT ![room_id].players[FirstIdx(hits)].is_connected
                                  = is_connected]

\* variant: no look-up of the session among the room's players
add_player_to_room_no_rejoin(room, session_id) ==
    IF is_full(room) THEN [room |-> room, player |-> None]
    ELSE LET ps == Append(room.players,
                          Player(session_id, Len(room.players) + 1))
         IN  [room |-> [room EXCEPT !.players = ps,
                           !.status = IF Len(ps) = 2 THEN "playing"
                                      ELSE room.status],
              player |-> Len(ps)]

\* returns the room after the call and the index of the returned player
\* (None when the call returns None)
add_player_to_room(room, session_id) ==
    IF is_full(room) THEN [room |-> room, player |-> None]
    ELSE IF PlayerIdx(room, session_id) # {}
    THEN LET i == FirstIdx(PlayerIdx(room, session_id))
         IN  [room |-> [room EXCEPT !.players[i].is_connected = TRUE],
              player |-> i]
    ELSE LET ps == Append(room.players,
                          Player(session_id, Len(room.players) + 1))
         IN  [room |-> [room EXCEPT !.players = ps,
                           !.status = IF Len(ps) = 2 THEN "playing"
                                      ELSE room.status],
              player |-> Len(ps)]

\* rooms are scanned in dict order, which is creation order
find_player_by_session(rms, session_id) ==
    LET hits == {r \in DOMAIN rms : PlayerIdx(rms[r], session_id) # {}}
    IN  IF hits = {} THEN None ELSE FirstIdx(hits)

\* tasks[r] is the number of _cleanup_room_after_delay tasks of room r that
\* are still in their sleep.  The body depends on room_id only, so the tasks of
\* one room need not be told apart; a cancelled task never resumes and is
\* dropped.  room_timers holds the rooms that have an entry.
TasksOf(ts, room_id) == IF room_id \in DOMAIN ts THEN ts[room_id] ELSE 0

\* task.cancel() on the task registered for room_id: a task that already
\* finished is left alone
CancelTask(ts, room_id) ==
    IF TasksOf(ts, room_id) > 0
    THEN Put(ts, room_id, TasksOf(ts, room_id) - 1)
    ELSE ts

\* asyncio.create_task(self._cleanup_room_after_delay(room_id, 30))
CreateTask(ts, room_id) == Put(ts, room_id, TasksOf(ts, room_id) + 1)

AllDisconnected(room) ==
    \A i \in 1..Len(room.players) : ~room.players[i].is_connected

\* variant: the deletion test looks at the connection set only
CleanupGuard_connections_only(room_id) ==
    /\ room_id \in DOMAIN connections
    /\ connections[room_id] = {}

\* the deletion test of _cleanup_room_after_delay
CleanupGuard(room_id) ==
    /\ room_id \in DOMAIN connections
    /\ connections[room_id] = {}
    /\ AllDisconnected(rooms[room_id])

\* handle_reconnection, timer part: cancel the pending task and forget it
RM_cancel_room_timer(timers, ts, room_id) ==
    IF room_id \in timers
    THEN [timers |-> timers \ {room_id}, tasks |-> CancelTask(ts, room_id)]
    ELSE [timers |-> timers, tasks |-> ts]

\* variant: only a room whose game is in progress is kept for the grace period
RM_remove_connection_playing_only(rms, conns, timers, ts, room_id, websocket, session_id) ==
    IF room_id \notin DOMAIN conns
    THEN [rooms |-> rms, conns |-> conns, timers |-> timers, tasks |-> ts]
    ELSE
    LET conns1 == Put(conns, room_id, conns[room_id] \ {websocket})
        rms1 == IF session_id # None
                THEN update_player_connection_status(
                         rms, room_id, <<"sid", session_id>>, FALSE)
                ELSE rms
    IN  IF room_id \notin DOMAIN rms1
        THEN [rooms |-> rms1, conns |-> conns1, timers |-> timers, tasks |-> ts]
        ELSE IF conns1[room_id] # {}
        THEN [rooms |-> rms1, conns |-> conns1, timers |-> timers, tasks |-> ts]
        ELSE IF rms1[room_id].status = "playing" /\ rms1[room_id].players # <<>>
        THEN LET ts1 == IF room_id \in timers
                        THEN CancelTask(ts, room_id) ELSE ts
             IN  [rooms |-> rms1, conns |-> conns1,
                  timers |-> timers \cup {room_id},
                  tasks |-> CreateTask(ts1, room_id)]
        ELSE [rooms |-> Del(rms1, room_id), conns |-> Del(conns1, room_id),
              timers |-> timers, tasks |-> ts]

\* RoomManager.remove_connection on rooms / connections / timers
RM_remove_connection(rms, conns, timers, ts, room_id, websocket, session_id) ==
    IF room_id \notin DOMAIN conns
    THEN [rooms |-> rms, conns |-> conns, timers |-> timers, tasks |-> ts]
    ELSE
    LET conns1 == Put(conns, room_id, conns[room_id] \ {websocket})
        rms1 == IF session_id # None
                THEN update_player_connection_status(
                         rms, room_id, <<"sid", session_id>>, FALSE)
                ELSE rms
    IN  IF room_id \notin DOMAIN rms1
        THEN [rooms |-> rms1, conns |-> conns1, timers |-> timers, tasks |-> ts]
        ELSE IF conns1[room_id] # {}
        THEN [rooms |-> rms1, conns |-> conns1, timers |-> timers, tasks |-> ts]
        ELSE IF rms1[room_id].status \in {"playing", "waiting"}
                /\ rms1[room_id].players # <<>>
        THEN LET ts1 == IF room_id \in timers
                        THEN CancelTask(ts, room_id) ELSE ts
             IN  [rooms |-> rms1, conns |-> conns1,
                  timers |-> timers \cup {room_id},
                  tasks |-> CreateTask(ts1, room_id)]
        ELSE [rooms |-> Del(rms1, room_id), conns |-> Del(conns1, room_id),
              timers |-> timers, tasks |-> ts]

\* ------------------------------------------------------------ actions
\* what `last` records of an operation.  reply: "ok", or which error message
\* the handler sent / what the timer did; note: "rejoin" when join returned an
\* existing player, "timer" when the room had a timer entry as the operation
\* began
Op(op, r, s, reply, note) ==
    [op |-> op, room |-> r, sid |-> s, reply |-> reply, note |-> note]

\* session ids are interchangeable tokens: a client presents either a session
\* the server already knows or the next unused one
KnownSessions ==
    {s \in Sessions :
        \/ \E r \in DOMAIN rooms : PlayerIdx(rooms[r], s) # {}
        \/ s \in DOMAIN session_to_room
        \/ \E i \in 1..Len(websocket_sessions) : websocket_sessions[i][2] = s}

Presentable(sid) ==
    \/ sid \in KnownSessions
    \/ \A s \in Sessions \ KnownSessions : sid <= s

NewSockets == {w \in WebSockets : sock[w].state = "new"}

InitCoord ==
    /\ rooms = EmptyDict
    /\ next_room = 0
    /\ connections = EmptyDict
    /\ websocket_sessions = <<>>
    /\ session_to_room = EmptyDict
    /\ room_timers = {}
    /\ tasks = EmptyDict
    /\ sock = [w \in WebSockets |-> [state |-> "new", room |-> None]]
    /\ published = <<>>
    /\ last = Op("init", None, None, "ok", "")

\* POST /omok/create
CreateRoom ==
    /\ next_room < MaxRooms
    /\ next_room' = next_room + 1
    /\ rooms' = Put(rooms, next_room + 1, NewRoom)
    /\ last' = Op("create", next_room + 1, None, "ok", "")
    /\ UNCHANGED <<connections, websocket_sessions, session_to_room,
                   room_timers, tasks, sock, published, notCoord>>

\* websocket_endpoint: accept, then serve the room if it exists
Connect(w, r) ==
    /\ w \in NewSockets
    /\ \A v \in NewSockets : w <= v
    /\ room_exists(r)
    /\ sock' = [sock EXCEPT ![w] = [state |-> "open", room |-> r]]
    /\ last' = Op("connect", r, None, "ok", "")
    /\ UNCHANGED <<rooms, next_room, connections, websocket_sessions,
                   session_to_room, room_timers, tasks, published, notCoord>>

\* WebSocketHandler._handle_join with a well-formed nickname and session id
HandleJoin(w, sid) ==
    /\ sock[w].state = "open"
    /\ Presentable(sid)
    /\ LET room_id == sock[w].room IN
       IF ~room_exists(room_id)
       THEN /\ last' = Op("join", room_id, None, "room_not_found", "")
            /\ UNCHANGED <<rooms, connections, websocket_sessions,
                           session_to_room>>
       ELSE LET res == add_player_to_room(rooms[room_id], sid) IN
            IF res.player = None
            THEN /\ last' = Op("join", room_id,
                                IF PlayerIdx(rooms[room_id], sid) # {}
                                THEN sid ELSE None, "add_player_failed", "")
                 /\ UNCHANGED <<rooms, connections, websocket_sessions,
                                session_to_room>>
            ELSE LET rms1 == Put(rooms, room_id, res.room)
                     num == res.room.players[res.player].player_number
                     cm == CM_add_connection(connections, websocket_sessions,
                               session_to_room, room_id, w, sid)
                 IN  /\ rooms' = update_player_connection_status(
                                     rms1, room_id, <<"num", num>>, TRUE)
                     /\ connections' = cm.conns
                     /\ websocket_sessions' = cm.ws_sess
                     /\ session_to_room' = cm.s2r
                     /\ last' = Op("join", room_id, sid, "ok",
                                   IF PlayerIdx(rooms[room_id], sid) # {}
                                   THEN "rejoin" ELSE "")
    /\ UNCHANGED <<next_room, room_timers, tasks, sock, published, notCoord>>

\* variant: only a session found in a different room is refused
ReconnectRefusal_other_room_only(rms, room_id, session_id) ==
    LET found == find_player_by_session(rms, session_id)
    IN  IF found # None /\ found # room_id THEN "other_room" ELSE "ok"

\* variant: the room the session was found in is not compared with room_id
ReconnectRefusal_no_room_check(rms, room_id, session_id) ==
    LET found == find_player_by_session(rms, session_id)
    IN  IF found = None THEN "game_not_found" ELSE "ok"

\* the checks of _handle_reconnect ahead of handle_reconnection: "ok" or the
\* error sent
ReconnectRefusal(rms, room_id, session_id) ==
    LET found == find_player_by_session(rms, session_id)
    IN  IF found = None THEN "game_not_found"
        ELSE IF found # room_id THEN "other_room"
        ELSE "ok"

\* WebSocketHandler._handle_reconnect -> RoomManager.handle_reconnection
HandleReconnect(w, sid) ==
    /\ sock[w].state = "open"
    /\ Presentable(sid)
    /\ LET room_id == sock[w].room
           refusal == ReconnectRefusal(rooms, room_id, sid)
       IN  IF refusal # "ok"
           THEN /\ last' = Op("reconnect", room_id, sid, refusal,
                              IF room_id \in room_timers THEN "timer"
                              ELSE "")
                /\ UNCHANGED <<rooms, connections, websocket_sessions,
                               session_to_room, room_timers, tasks>>
           ELSE LET tm == RM_cancel_room_timer(room_timers, tasks, room_id)
                    cm == CM_handle_reconnection(connections,
                              websocket_sessions, session_to_room,
                              room_id, w, sid)
                IN  /\ room_timers' = tm.timers
                    /\ tasks' = tm.tasks
                    /\ connections' = cm.conns
                    /\ websocket_sessions' = cm.ws_sess
                    /\ session_to_room' = cm.s2r
                    /\ rooms' = update_player_connection_status(
                                    rooms, room_id, <<"sid", sid>>, TRUE)
                    /\ last' = Op("reconnect", room_id, sid, "ok",
                                  IF room_id \in room_timers THEN "timer"
                                  ELSE "")
    /\ UNCHANGED <<next_room, sock, published, notCoord>>

\* _handle_disconnect, after which the endpoint coroutine ends; op and reply
\* tell what made the endpoint call it
_handle_disconnect(w, op, reply) ==
    /\ LET room_id == sock[w].room
           sid == get_session_id_by_websocket(websocket_sessions, w)
           res == RM_remove_connection(rooms, connections, room_timers, tasks,
                                       room_id, w, sid)
           cm == CM_drop_session_mapping(websocket_sessions, session_to_room, w)
       IN  /\ rooms' = res.rooms
           /\ connections' = res.conns
           /\ room_timers' = res.timers
           /\ tasks' = res.tasks
           /\ websocket_sessions' = cm.ws_sess
           /\ session_to_room' = cm.s2r
           /\ last' = Op(op, room_id, sid, reply,
                        IF room_id \in room_timers THEN "timer" ELSE "")
    /\ sock' = [sock EXCEPT ![w] = [state |-> "new", room |-> None]]
    /\ UNCHANGED <<next_room, published, notCoord>>

\* websocket_endpoint: receive_text raises WebSocketDisconnect
Disconnect(w) ==
    /\ sock[w].state = "open"
    /\ _handle_disconnect(w, "disconnect", "ok")

\* websocket_endpoint: a JSON message whose "type" is missing or is not a
\* value of MessageType, or a restart_request without "from".  handle_message
\* raises (KeyError, ValueError) before anything is changed or sent, and the
\* endpoint's `except Exception` calls _handle_disconnect
HandleBadMessage(w) ==
    /\ sock[w].state = "open"
    /\ _handle_disconnect(w, "message", "exception")

\* the sleep of one task of room_id ends: the rest of
\* _cleanup_room_after_delay runs
TimerFire(room_id) ==
    /\ TasksOf(tasks, room_id) > 0
    /\ tasks' = [tasks EXCEPT ![room_id] = @ - 1]
    /\ IF ~room_exists(room_id)
       THEN /\ last' = Op("fire", room_id, None, "no_room", "")
            /\ UNCHANGED <<rooms, connections, room_timers>>
       ELSE /\ IF CleanupGuard(room_id)
               THEN /\ rooms' = Del(rooms, room_id)
                    /\ connections' = Del(connections, room_id)
                    /\ last' = Op("fire", room_id, None, "deleted", "")
               ELSE /\ UNCHANGED <<rooms, connections>>
                    /\ last' = Op("fire", room_id, None, "kept", "")
            /\ room_timers' = room_timers \ {room_id}
    /\ UNCHANGED <<next_room, websocket_sessions, session_to_room, sock,
                   published, notCoord>>

Next ==
    \/ CreateRoom
    \/ \E w \in WebSockets, r \in RoomIds : Connect(w, r)
    \/ \E w \in WebSockets, sid \in Sessions : HandleJoin(w, sid)
    \/ \E w \in WebSockets, sid \in Sessions : HandleReconnect(w, sid)
    \/ \E w \in WebSockets : Disconnect(w)
    \/ \E w \in WebSockets : HandleBadMessage(w)
    \/ \E r \in RoomIds : TimerFire(r)

\* ---------------------------------------------------------------- EventBus
EventTypes == {"RoomDeletedEvent", "PlayerJoinedEvent"}

Handlers == 1..MaxHandlers

Priorities == 0..MaxPriority

\* handlers with an even id are coroutine functions (async def)
IsAsync(h) == h % 2 = 0

\* list.sort(key=priority, reverse=True): stable, highest priority first
RECURSIVE SortFrom(_, _)
SortFrom(seq, p) ==
    IF p < 0 THEN <<>>
    ELSE SelectSeq(seq, LAMBDA e : e[1] = p) \o SortFrom(seq, p - 1)

sort_by_priority(seq) == SortFrom(seq, MaxPriority)

HandlersOf(hs, event_type) ==
    IF event_type \in DOMAIN hs THEN hs[event_type] ELSE <<>>

get_handler_count(counts, event_type) ==
    IF event_type \in DOMAIN counts THEN counts[event_type] ELSE 0

RECURSIVE SumLen(_, _)
SumLen(hs, types) ==
    IF types = {} THEN 0
    ELSE LET t == CHOOSE x \in types : TRUE
         IN  Len(hs[t]) + SumLen(hs, types \ {t})

Registrations == SumLen(bus_handlers, DOMAIN bus_handlers)
                    + Len(bus_global_handlers)

\* called lists the entries the loop of publish has called, in order
Idle == [pc |-> "idle", event |-> "", to_run |-> <<>>, i |-> 1,
         pending |-> {}, ran |-> <<>>, outcome |-> "", called |-> <<>>]

InitBus ==
    /\ bus_handlers = [x \in {} |-> <<>>]
    /\ bus_global_handlers = <<>>
    /\ bus_handler_count = [x \in {} |-> 0]
    /\ pub = Idle

\* the body of subscribe
do_subscribe(event_type, handler, priority) ==
    /\ Registrations < MaxRegistrations
    /\ get_handler_count(bus_handler_count, event_type) < MaxCount
    /\ bus_handlers' = Put(bus_handlers, event_type,
           sort_by_priority(Append(HandlersOf(bus_handlers, event_type),
                                   <<priority, handler>>)))
    /\ bus_handler_count' = Put(bus_handler_count, event_type,
           get_handler_count(bus_handler_count, event_type) + 1)
    /\ UNCHANGED <<bus_global_handlers, pub, notBus>>

subscribe(event_type, handler, priority) ==
    /\ pub.pc = "idle"
    /\ do_subscribe(event_type, handler, priority)

subscribe_global(handler, priority) ==
    /\ pub.pc = "idle"
    /\ Registrations < MaxRegistrations
    /\ bus_global_handlers' =
           sort_by_priority(Append(bus_global_handlers, <<priority, handler>>))
    /\ UNCHANGED <<bus_handlers, bus_handler_count, pub, notBus>>

\* the body of unsubscribe
do_unsubscribe(event_type, handler) ==
    /\ event_type \in DOMAIN bus_handlers
    /\ LET kept == SelectSeq(bus_handlers[event_type],
                             LAMBDA e : e[2] # handler)
           removed == Len(bus_handlers[event_type]) > Len(kept)
       IN  /\ bus_handlers' = Put(bus_handlers, event_type, kept)
           /\ bus_handler_count' =
                  IF removed
                  THEN Put(bus_handler_count, event_type,
                           bus_handler_count[event_type] - 1)
                  ELSE bus_handler_count
    /\ UNCHANGED <<bus_global_handlers, pub, notBus>>

unsubscribe(event_type, handler) ==
    /\ pub.pc = "idle"
    /\ do_unsubscribe(event_type, handler)

\* clear_handlers(None)
clear_all_handlers ==
    /\ pub.pc = "idle"
    /\ Registrations > 0
    /\ bus_handlers' = [x \in {} |-> <<>>]
    /\ bus_global_handlers' = <<>>
    /\ bus_handler_count' = [x \in {} |-> 0]
    /\ UNCHANGED <<pub, notBus>>

\* clear_handlers(event_type)
clear_handlers(event_type) ==
    /\ pub.pc = "idle"
    /\ event_type \in DOMAIN bus_handlers
    /\ bus_handlers' = Del(bus_handlers, event_type)
    /\ bus_handler_count' = Put(bus_handler_count, event_type, 0)
    /\ UNCHANGED <<bus_global_handlers, pub, notBus>>

\* publish, up to the loop: collect, sort, return at once if nothing matches
PublishStart(event_type) ==
    /\ pub.pc = "idle"
    /\ LET to_run == sort_by_priority(
                         bus_global_handlers
                             \o HandlersOf(bus_handlers, event_type))
       IN  pub' = [Idle EXCEPT !.event = event_type, !.to_run = to_run,
                       !.pc = IF to_run = <<>> THEN "done" ELSE "loop",
                       !.outcome = IF to_run = <<>> THEN "returned" ELSE ""]
    /\ UNCHANGED <<bus_handlers, bus_global_handlers, bus_handler_count,
                   notBus>>

\* variant: publish returns after the loop without waiting for its tasks
AfterCall_no_gather(p) ==
    IF p.i < Len(p.to_run) THEN [p EXCEPT !.i = p.i + 1]
    ELSE [p EXCEPT !.i = p.i + 1, !.pc = "done", !.outcome = "returned"]

\* where publish stands once the loop has handled to_run[p.i]
AfterCall(p) ==
    IF p.i < Len(p.to_run) THEN [p EXCEPT !.i = p.i + 1]
    ELSE IF p.pending # {} THEN [p EXCEPT !.i = p.i + 1, !.pc = "gather"]
    ELSE [p EXCEPT !.i = p.i + 1, !.pc = "done", !.outcome = "returned"]

\* variant: no try/except around the call of the handler
call_handler_unguarded(p, raises) ==
    LET h == p.to_run[p.i][2]
    IN  IF IsAsync(h)
        THEN AfterCall([p EXCEPT !.pending = p.pending \cup {p.i}])
        ELSE LET p1 == [p EXCEPT !.ran = Append(p.ran,
                                   [idx |-> p.i, raised |-> raises])]
             IN  IF raises
                 THEN [p1 EXCEPT !.pc = "done", !.outcome = "raised"]
                 ELSE AfterCall(p1)

\* one iteration of the loop of publish: a synchronous handler runs inline and
\* what it raises is caught and logged; a coroutine function returns a
\* coroutine, which is wrapped in a task
call_handler(p, raises) ==
    LET h == p.to_run[p.i][2]
    IN  IF IsAsync(h)
        THEN AfterCall([p EXCEPT !.pending = p.pending \cup {p.i}])
        ELSE AfterCall([p EXCEPT !.ran = Append(p.ran,
                                   [idx |-> p.i, raised |-> raises])])

\* variant: the loop reads the registry as it is when it gets to position i
next_entry_live(p, globals, hs) ==
    LET live == sort_by_priority(globals \o HandlersOf(hs, p.event))
    IN  IF p.i <= Len(live) THEN live[p.i] ELSE p.to_run[p.i]

\* the entry the loop handles next: handlers_to_run is a list of its own,
\* filled from the registry (globals, hs) before the loop starts
next_entry(p, globals, hs) == p.to_run[p.i]

PublishCall(raises) ==
    /\ pub.pc = "loop"
    /\ IsAsync(pub.to_run[pub.i][2]) => ~raises
    /\ pub' = [call_handler(pub, raises) EXCEPT !.called =
                   Append(pub.called,
                          next_entry(pub, bus_global_handlers, bus_handlers))]
    /\ UNCHANGED <<bus_handlers, bus_global_handlers, bus_handler_count,
                   notBus>>

\* the tasks made by publish run, in the order of their creation, while
\* publish waits in gather
TaskRun(k, raises) ==
    /\ pub.pc = "gather"
    /\ k \in pub.pending
    /\ \A j \in pub.pending : k <= j
    /\ pub' = [pub EXCEPT !.pending = pub.pending \ {k},
                   !.ran = Append(pub.ran, [idx |-> k, raised |-> raises])]
    /\ UNCHANGED <<bus_handlers, bus_global_handlers, bus_handler_count,
                   notBus>>

\* gather(*tasks, return_exceptions=True) is done: publish returns
PublishReturn ==
    /\ pub.pc = "gather"
    /\ pub.pending = {}
    /\ pub' = [pub EXCEPT !.pc = "done", !.outcome = "returned"]
    /\ UNCHANGED <<bus_handlers, bus_global_handlers, bus_handler_count,
                   notBus>>

\* the caller of publish goes on
PublishEnd ==
    /\ pub.pc = "done"
    /\ pub' = Idle
    /\ UNCHANGED <<bus_handlers, bus_global_handlers, bus_handler_count,
                   notBus>>

NextBus ==
    \/ \E t \in EventTypes, h \in Handlers, p \in Priorities : subscribe(t, h, p)
    \/ \E h \in Handlers, p \in Priorities : subscribe_global(h, p)
    \/ \E t \in EventTypes, h \in Handlers : unsubscribe(t, h)
    \/ clear_all_handlers
    \/ \E t \in EventTypes : clear_handlers(t)
    \/ \E t \in EventTypes : PublishStart(t)
    \/ \E raises \in BOOLEAN : PublishCall(raises)
    \/ \E k \in 1..MaxRegistrations, raises \in BOOLEAN : TaskRun(k, raises)
    \/ PublishReturn
    \/ PublishEnd

\* The registry while a publish is in progress.  The loop of publish has no
\* await: between two of its calls only the synchronous handler it has just
\* called can have changed the registry; while publish waits in gather, its
\* tasks and every other coroutine can.
InPublish ==
    \/ pub.pc = "gather"
    \/ pub.pc = "loop" /\ pub.i > 1 /\ ~IsAsync(pub.to_run[pub.i - 1][2])

SubscribeInPublish(event_type, handler, priority) ==
    /\ InPublish
    /\ do_subscribe(event_type, handler, priority)

UnsubscribeInPublish(event_type, handler) ==
    /\ InPublish
    /\ do_unsubscribe(event_type, handler)

NextResubscribe ==
    \/ \E t \in EventTypes, h \in Handlers, p \in Priorities : subscribe(t, h, p)
    \/ \E h \in Handlers, p \in Priorities : subscribe_global(h, p)
    \/ \E t \in EventTypes, h \in Handlers : unsubscribe(t, h)
    \/ \E t \in EventTypes, h \in Handlers, p \in Priorities :
           SubscribeInPublish(t, h, p)
    \/ \E t \in EventTypes, h \in Handlers : UnsubscribeInPublish(t, h)
    \/ \E t \in EventTypes : PublishStart(t)
    \/ \E raises \in BOOLEAN : PublishCall(raises)
    \/ \E k \in 1..MaxRegistrations, raises \in BOOLEAN : TaskRun(k, raises)
    \/ PublishReturn
    \/ PublishEnd

\* ---------------------------------------------------------- SessionManager
session_timeout == 24

SessOp(op, sid, found, result) ==
    [op |-> op, sid |-> sid, found |-> found, result |-> result]

InitSession ==
    /\ sessions = [x \in {} |-> None]
    /\ now = 0
    /\ sess_last = SessOp("init", None, FALSE, "")

_is_session_expired(session, t) == t - session.last_seen > session_timeout

delete_session(ss, session_id) ==
    IF session_id \in DOMAIN ss THEN Del(ss, session_id) ELSE ss

\* variant: an expired session is reported but stays in the store
get_session_data_keep_expired(ss, session_id, t) ==
    IF session_id \notin DOMAIN ss THEN [sessions |-> ss, result |-> "none"]
    ELSE IF _is_session_expired(ss[session_id], t)
    THEN [sessions |-> ss, result |-> "none"]
    ELSE [sessions |-> ss, result |-> "data"]

\* the store after the call, and whether data or None was returned
get_session_data(ss, session_id, t) ==
    IF session_id \notin DOMAIN ss THEN [sessions |-> ss, result |-> "none"]
    ELSE IF _is_session_expired(ss[session_id], t)
    THEN [sessions |-> delete_session(ss, session_id), result |-> "none"]
    ELSE [sessions |-> ss, result |-> "data"]

\* time passes
Tick ==
    /\ now < MaxTicks * TickHours
    /\ now' = now + TickHours
    /\ sess_last' = SessOp("tick", None, FALSE, "")
    /\ UNCHANGED <<sessions, notSess>>

\* uuid4 gives any id
create_session(session_id) ==
    /\ sessions' = Put(sessions, session_id,
                       [last_seen |-> now, room_id |-> None])
    /\ sess_last' = SessOp("create", session_id,
                           session_id \in DOMAIN sessions, "")
    /\ UNCHANGED <<now, notSess>>

GetSessionData(session_id) ==
    /\ LET res == get_session_data(sessions, session_id, now)
       IN  /\ sessions' = res.sessions
           /\ sess_last' = SessOp("get", session_id,
                                  session_id \in DOMAIN sessions, res.result)
    /\ UNCHANGED <<now, notSess>>

\* update_session(session_id, data) and update_player_info(session_id,
\* player): the data kept is not modelled, last_seen is
update_session(session_id) ==
    /\ sessions' = IF session_id \in DOMAIN sessions
                   THEN [sessions EXCEPT ![session_id].last_seen = now]
                   ELSE sessions
    /\ sess_last' = SessOp("update", session_id,
                           session_id \in DOMAIN sessions, "")
    /\ UNCHANGED <<now, notSess>>

set_room_id(session_id, room_id) ==
    /\ sessions' = IF session_id \in DOMAIN sessions
                   THEN [sessions EXCEPT ![session_id] =
                            [last_seen |-> now, room_id |-> room_id]]
                   ELSE sessions
    /\ sess_last' = SessOp("set_room", session_id,
                           session_id \in DOMAIN sessions, "")
    /\ UNCHANGED <<now, notSess>>

DeleteSession(session_id) ==
    /\ session_id \in DOMAIN sessions
    /\ sessions' = delete_session(sessions, session_id)
    /\ sess_last' = SessOp("delete", session_id, TRUE, "")
    /\ UNCHANGED <<now, notSess>>

cleanup_expired_sessions ==
    /\ sessions' = [s \in {x \in DOMAIN sessions :
                             ~_is_session_expired(sessions[x], now)}
                       |-> sessions[s]]
    /\ sess_last' = SessOp("cleanup", None, FALSE, "")
    /\ UNCHANGED <<now, notSess>>

NextSession ==
    \/ Tick
    \/ \E s \in Sessions : create_session(s)
    \/ \E s \in Sessions : GetSessionData(s)
    \/ \E s \in Sessions : update_session(s)
    \/ \E s \in Sessions, r \in RoomIds : set_room_id(s, r)
    \/ \E s \in Sessions : DeleteSession(s)
    \/ cleanup_expired_sessions

\* ---------------------------------------------- RoomLifecycleManager
LcOp(op, r, s, result) == [op |-> op, room |-> r, sid |-> s, result |-> result]

InitLife ==
    /\ lc_rooms = EmptyDict
    /\ lc_session_to_room = EmptyDict
    /\ lc_last = LcOp("init", None, None, None)
    /\ lc_now = 0
    /\ lc_seen = EmptyDict
    /\ lc_timers = {}

\* the last_seen entries without those of the rooms in gone
SeenWithout(seen, gone) == [k \in {x \in DOMAIN seen : x[1] \notin gone} |-> seen[k]]

\* time passes
LC_Tick ==
    /\ lc_now < MaxLcTicks * LcTickMinutes
    /\ lc_now' = lc_now + LcTickMinutes
    /\ lc_last' = LcOp("tick", None, None, None)
    /\ UNCHANGED <<lc_rooms, lc_session_to_room, lc_seen, lc_timers, notLife>>

\* room ids are uuid4 prefixes: a new room gets an id no room currently has
LC_create_room ==
    /\ DOMAIN lc_rooms # RoomIds
    /\ LET room_id == FirstIdx(RoomIds \ DOMAIN lc_rooms)
       IN  /\ lc_rooms' = Put(lc_rooms, room_id, NewRoom)
           /\ lc_last' = LcOp("create", room_id, None, None)
    /\ UNCHANGED <<lc_session_to_room, lc_now, lc_seen, lc_timers, notLife>>

\* result: the player_number of the returned player, None when None is returned
LC_add_player_to_room(room_id, session_id) ==
    /\ IF room_id \notin DOMAIN lc_rooms
       THEN /\ lc_last' = LcOp("add", room_id, session_id, None)
            /\ UNCHANGED <<lc_rooms, lc_session_to_room, lc_seen>>
       ELSE LET room == lc_rooms[room_id]
                res == add_player_to_room(room, session_id)
                added == Len(res.room.players) > Len(room.players)
            IN  /\ lc_rooms' = [lc_rooms EXCEPT ![room_id] = res.room]
                /\ lc_session_to_room' =
                       IF added THEN Put(lc_session_to_room, session_id, room_id)
                       ELSE lc_session_to_room
                /\ lc_seen' = IF res.player = None THEN lc_seen
                              ELSE Put(lc_seen, <<room_id, session_id>>, lc_now)
                /\ lc_last' = LcOp("add", room_id, session_id,
                                   IF res.player = None THEN None
                                   ELSE res.room.players[res.player].player_number)
    /\ UNCHANGED <<lc_now, lc_timers, notLife>>

RemoveAt(seq, i) == [j \in 1..(Len(seq) - 1) |-> IF j < i THEN seq[j] ELSE seq[j + 1]]

\* variant: the status is left as it was
remove_player_from_room_keep_status(room, session_id) ==
    IF PlayerIdx(room, session_id) = {} THEN [room |-> room, player |-> None]
    ELSE LET i == FirstIdx(PlayerIdx(room, session_id))
         IN  [room |-> [room EXCEPT !.players = RemoveAt(room.players, i)],
              player |-> room.players[i].player_number]

\* returns the room after the call and the player_number of the removed
\* player (None when nothing was removed)
remove_player_from_room(room, session_id) ==
    IF PlayerIdx(room, session_id) = {} THEN [room |-> room, player |-> None]
    ELSE LET i == FirstIdx(PlayerIdx(room, session_id))
             ps == RemoveAt(room.players, i)
         IN  [room |-> [room EXCEPT !.players = ps,
                           !.status = IF ps = <<>> THEN "waiting"
                                      ELSE IF Len(ps) < 2 /\ room.status = "playing"
                                      THEN "waiting"
                                      ELSE room.status],
              player |-> room.players[i].player_number]

LC_remove_player_from_room(room_id, session_id) ==
    /\ IF room_id \notin DOMAIN lc_rooms
       THEN /\ lc_last' = LcOp("remove", room_id, session_id, None)
            /\ UNCHANGED <<lc_rooms, lc_session_to_room, lc_seen>>
       ELSE LET res == remove_player_from_room(lc_rooms[room_id], session_id)
            IN  /\ lc_rooms' = [lc_rooms EXCEPT ![room_id] = res.room]
                /\ lc_session_to_room' =
                       IF res.player # None
                       THEN Del(lc_session_to_room, session_id)
                       ELSE lc_session_to_room
                /\ lc_seen' = Del(lc_seen, <<room_id, session_id>>)
                /\ lc_last' = LcOp("remove", room_id, session_id, res.player)
    /\ UNCHANGED <<lc_now, lc_timers, notLife>>

LC_delete_room(room_id) ==
    /\ IF room_id \notin DOMAIN lc_rooms
       THEN /\ lc_last' = LcOp("delete", room_id, None, None)
            /\ UNCHANGED <<lc_rooms, lc_session_to_room, lc_seen>>
       ELSE LET gone == {lc_rooms[room_id].players[i].session_id :
                            i \in 1..Len(lc_rooms[room_id].players)}
            IN  /\ lc_session_to_room' =
                       [x \in DOMAIN lc_session_to_room \ gone
                           |-> lc_session_to_room[x]]
                /\ lc_rooms' = Del(lc_rooms, room_id)
                /\ lc_seen' = SeenWithout(lc_seen, {room_id})
                /\ lc_last' = LcOp("delete", room_id, None, room_id)
    /\ UNCHANGED <<lc_now, lc_timers, notLife>>

\* whether cleanup_expired_rooms puts the room on its rooms_to_delete list
RoomExpired(rms, seen, t, room_id, max_inactive_minutes) ==
    LET room == rms[room_id]
    IN  IF room.players # <<>>
        THEN \A i \in 1..Len(room.players) :
                 ~(t - seen[<<room_id, room.players[i].session_id>>]
                      < max_inactive_minutes)
        ELSE room.status = "waiting"

\* result: the list of deleted room ids, as a set
LC_cleanup_expired_rooms(max_inactive_minutes) ==
    /\ LET gone == {r \in DOMAIN lc_rooms :
                       RoomExpired(lc_rooms, lc_seen, lc_now, r,
                                   max_inactive_minutes)}
       IN  /\ lc_rooms' = [r \in DOMAIN lc_rooms \ gone |-> lc_rooms[r]]
           /\ lc_session_to_room' =
                  [x \in DOMAIN lc_session_to_room \
                      {lc_rooms[r].players[i].session_id :
                          <<r, i>> \in {y \in gone \X (1..2) :
                                           y[2] <= Len(lc_rooms[y[1]].players)}}
                      |-> lc_session_to_room[x]]
           /\ lc_seen' = SeenWithout(lc_seen, gone)
           /\ lc_last' = LcOp("cleanup", None, None, gone)
    /\ UNCHANGED <<lc_now, lc_timers, notLife>>

\* the rooms of which the session is a player
RoomsOfSession(rms, session_id) ==
    {r \in DOMAIN rms : PlayerIdx(rms[r], session_id) # {}}

\* whether the session_to_room entry leads to a room that has the player
IndexHit(rms, s2r, session_id) ==
    /\ session_id \in DOMAIN s2r
    /\ s2r[session_id] \in RoomsOfSession(rms, session_id)

\* variant: the full scan does not write the mapping
lc_find_player_by_session_no_repair(rms, s2r, session_id, scan) ==
    IF IndexHit(rms, s2r, session_id)
    THEN [room |-> s2r[session_id], s2r |-> s2r]
    ELSE [room |-> scan, s2r |-> s2r]

\* scan: the room the full scan comes across first (None when it finds none);
\* returns the room of the returned pair and the mapping after the call
lc_find_player_by_session(rms, s2r, session_id, scan) ==
    IF IndexHit(rms, s2r, session_id)
    THEN [room |-> s2r[session_id], s2r |-> s2r]
    ELSE IF scan # None
    THEN [room |-> scan, s2r |-> Put(s2r, session_id, scan)]
    ELSE [room |-> None, s2r |-> s2r]

\* the rooms dict is scanned in insertion order, which the model does not
\* keep: the scan comes across any of the rooms that have the player first.
\* lc_last.room is the room the mapping gave (None when it had no entry)
LC_find_player_by_session(session_id) ==
    /\ \E scan \in RoomsOfSession(lc_rooms, session_id) \cup {None} :
           /\ scan = None <=> RoomsOfSession(lc_rooms, session_id) = {}
           /\ LET res == lc_find_player_by_session(lc_rooms, lc_session_to_room,
                                                  session_id, scan)
              IN  /\ lc_session_to_room' = res.s2r
                  /\ lc_last' = LcOp("find",
                                     IF session_id \in DOMAIN lc_session_to_room
                                     THEN lc_session_to_room[session_id]
                                     ELSE None,
                                     session_id, res.room)
    /\ UNCHANGED <<lc_rooms, lc_now, lc_seen, lc_timers, notLife>>

\* schedule_room_cleanup_after_empty; result: whether a task was scheduled
LC_schedule_room_cleanup_after_empty(room_id) ==
    /\ LET armed == /\ room_id \in DOMAIN lc_rooms
                    /\ lc_rooms[room_id].status \in {"playing", "waiting"}
                    /\ lc_rooms[room_id].players # <<>>
       IN  /\ lc_timers' = IF armed THEN lc_timers \cup {room_id} ELSE lc_timers
           /\ lc_last' = LcOp("schedule", room_id, None, armed)
    /\ UNCHANGED <<lc_rooms, lc_session_to_room, lc_now, lc_seen, notLife>>

\* cancel_room_timer; result: what RoomTimer.cancel_timer returns
LC_cancel_room_timer(room_id) ==
    /\ lc_timers' = lc_timers \ {room_id}
    /\ lc_last' = LcOp("cancel", room_id, None, room_id \in lc_timers)
    /\ UNCHANGED <<lc_rooms, lc_session_to_room, lc_now, lc_seen, notLife>>

\* the pending task of a room ends its sleep and calls cleanup_callback, which
\* the caller of schedule_room_cleanup_after_empty chose: deletes tells
\* whether it calls delete_room
LC_timer_fire(room_id, deletes) ==
    /\ room_id \in lc_timers
    /\ lc_timers' = lc_timers \ {room_id}
    /\ IF deletes /\ room_id \in DOMAIN lc_rooms
       THEN LET gone == {lc_rooms[room_id].players[i].session_id :
                            i \in 1..Len(lc_rooms[room_id].players)}
            IN  /\ lc_session_to_room' =
                       [x \in DOMAIN lc_session_to_room \ gone
                           |-> lc_session_to_room[x]]
                /\ lc_rooms' = Del(lc_rooms, room_id)
                /\ lc_seen' = SeenWithout(lc_seen, {room_id})
                /\ lc_last' = LcOp("fire", room_id, None, TRUE)
       ELSE /\ lc_last' = LcOp("fire", room_id, None, FALSE)
            /\ UNCHANGED <<lc_rooms, lc_session_to_room, lc_seen>>
    /\ UNCHANGED <<lc_now, notLife>>

NextLife ==
    \/ LC_create_room
    \/ \E r \in RoomIds : LC_schedule_room_cleanup_after_empty(r)
    \/ \E r \in RoomIds : LC_cancel_room_timer(r)
    \/ \E r \in RoomIds, deletes \in BOOLEAN : LC_timer_fire(r, deletes)
    \/ LC_Tick
    \/ \E m \in {default_max_inactive_minutes} : LC_cleanup_expired_rooms(m)
    \/ \E s \in Sessions : LC_find_player_by_session(s)
    \/ \E r \in RoomIds, s \in Sessions : LC_add_player_to_room(r, s)
    \/ \E r \in RoomIds, s \in Sessions : LC_remove_player_from_room(r, s)
    \/ \E r \in RoomIds : LC_delete_room(r)

\* ------------------------------------------------------------ RoomTimer
\* A task is "created" until the event loop first runs it, "sleeping" inside
\* asyncio.sleep, "cancelling" once cancel() was called on it while it slept
\* (CancelledError is raised in it when the loop next runs it) and "done"
\* afterwards.  A task cancelled before its first run never executes its body.
\* calls counts the invocations of cleanup_callback by the task.
TaskIds == 1..MaxTasks

RtOp(op, r, t, result) == [op |-> op, room |-> r, task |-> t, result |-> result]

InitTimer ==
    /\ rt_timers = EmptyDict
    /\ rt_tasks = <<>>
    /\ rt_last = RtOp("init", None, None, "")

remove_timer(timers, room_id) == Del(timers, room_id)

done(ts, t) == ts[t].state = "done"

has_timer(room_id) == room_id \in DOMAIN rt_timers /\ ~done(rt_tasks, rt_timers[room_id])

task_cancel(ts, t) ==
    [ts EXCEPT ![t].cancelled = TRUE,
               ![t].state = IF ts[t].state = "created" THEN "done" ELSE "cancelling"]

cancel_timer(timers, ts, room_id) ==
    IF room_id \in DOMAIN timers
    THEN LET timer_task == timers[room_id]
         IN  [timers |-> remove_timer(timers, room_id),
              tasks |-> IF ~done(ts, timer_task) THEN task_cancel(ts, timer_task)
                        ELSE ts,
              result |-> TRUE]
    ELSE [timers |-> timers, tasks |-> ts, result |-> FALSE]

schedule_room_cleanup(room_id) ==
    /\ Len(rt_tasks) < MaxTasks
    /\ LET c == cancel_timer(rt_timers, rt_tasks, room_id)
           timer_task == Len(rt_tasks) + 1
       IN  /\ rt_tasks' = Append(c.tasks, [room |-> room_id, state |-> "created",
                                           calls |-> 0, cancelled |-> FALSE])
           /\ rt_timers' = Put(c.timers, room_id, timer_task)
           /\ rt_last' = RtOp("schedule", room_id, timer_task,
                              IF c.result THEN "rearmed" ELSE "armed")
    /\ UNCHANGED notTimer

CancelTimer(room_id) ==
    /\ LET c == cancel_timer(rt_timers, rt_tasks, room_id)
       IN  /\ rt_timers' = c.timers
           /\ rt_tasks' = c.tasks
           /\ rt_last' = RtOp("cancel", room_id,
                              IF c.result THEN rt_timers[room_id] ELSE None,
                              IF c.result THEN "true" ELSE "false")
    /\ UNCHANGED notTimer

\* the event loop runs the new task up to its await
TaskSleep(t) ==
    /\ t \in 1..Len(rt_tasks)
    /\ rt_tasks[t].state = "created"
    /\ rt_tasks' = [rt_tasks EXCEPT ![t].state = "sleeping"]
    /\ rt_last' = RtOp("sleep", rt_tasks[t].room, t, "")
    /\ UNCHANGED <<rt_timers, notTimer>>

\* variant: an exception of the callback ends the task at once
AfterCallback_no_except(timers, room_id, raises) ==
    IF raises THEN timers ELSE remove_timer(timers, room_id)

\* the timers after cleanup_callback returned or raised
AfterCallback(timers, room_id, raises) == remove_timer(timers, room_id)

\* the sleep is over: the rest of _cleanup_after_delay runs without an await
TaskWake(t, raises) ==
    /\ t \in 1..Len(rt_tasks)
    /\ rt_tasks[t].state = "sleeping"
    /\ LET room_id == rt_tasks[t].room
       IN  IF room_id \in DOMAIN rt_timers
           THEN /\ rt_tasks' = [rt_tasks EXCEPT ![t].state = "done",
                                                ![t].calls = @ + 1]
                /\ rt_timers' = AfterCallback(rt_timers, room_id, raises)
                /\ rt_last' = RtOp("fire", room_id, t,
                                   IF raises THEN "raised" ELSE "returned")
           ELSE /\ ~raises
                /\ rt_tasks' = [rt_tasks EXCEPT ![t].state = "done"]
                /\ rt_last' = RtOp("wake", room_id, t, "no_timer")
                /\ UNCHANGED rt_timers
    /\ UNCHANGED notTimer

\* CancelledError is raised at the sleep
TaskCancelled(t) ==
    /\ t \in 1..Len(rt_tasks)
    /\ rt_tasks[t].state = "cancelling"
    /\ rt_tasks' = [rt_tasks EXCEPT ![t].state = "done"]
    /\ rt_timers' = remove_timer(rt_timers, rt_tasks[t].room)
    /\ rt_last' = RtOp("cancelled", rt_tasks[t].room, t,
                       IF rt_tasks[t].room \in DOMAIN rt_timers THEN "removed"
                       ELSE "")
    /\ UNCHANGED notTimer

NextTimer ==
    \/ \E r \in RoomIds : schedule_room_cleanup(r)
    \/ \E r \in RoomIds : CancelTimer(r)
    \/ \E t \in TaskIds : TaskSleep(t)
    \/ \E t \in TaskIds, raises \in BOOLEAN : TaskWake(t, raises)
    \/ \E t \in TaskIds : TaskCancelled(t)

\* ------------------------------- room mutations and their broadcast
\* One omok room in play: websocket 1 serves the player with colour 1,
\* websocket 2 the player with colour 2, any further one a session that is no
\* player of the room.  attached is connections[room_id], the one set object
\* that add_connection and remove_connection change in place and that
\* get_room_connections returns.  applied lists the mutations of the room
\* (moves appended to move_history, messages appended to chat_history) in the
\* order they were made; the notification built for a mutation is named by the
\* mutation's position in applied.
\* The endpoint coroutine of a websocket is in receive_text ("receive") or
\* inside the loop of _broadcast_to_room ("broadcast"), suspended in a
\* send_text.  Its set iterator has the websockets of todo ahead of it and
\* remembers the size the set had when the loop began; start is the content
\* of the set at that time, attempted the websockets send_text was called
\* on and left the websockets that were discarded from the set since.
Connections == 1..MaxConnections

Receiving ==
    [pc |-> "receive", update |-> None, todo |-> {}, size |-> 0, start |-> {}, attempted |-> {}, left |-> {}]

BcOp(op, w, stayed, attempted, failed) ==
    [op |-> op, ws |-> w, stayed |-> stayed, attempted |-> attempted, failed |-> failed]

InitMove ==
    /\ applied = <<>>
    /\ current_player = 1
    /\ attached = Connections
    /\ endpoint = [w \in Connections |-> Receiving]
    /\ received = [w \in Connections |-> <<>>]
    /\ bc_last = BcOp("init", None, {}, {}, FALSE)

\* one iteration of the loop of _broadcast_to_room up to the suspension in
\* send_text; what send_text raises is caught and ignored.  The iterator
\* takes the websockets in one fixed order
send_next(h, rcv, fails) ==
    LET ws == FirstIdx(h.todo)
    IN  [endpoint |-> [h EXCEPT !.todo = h.todo \ {ws},
                                !.attempted = h.attempted \cup {ws}],
         received |-> IF fails THEN rcv
                      ELSE [rcv EXCEPT ![ws] = Append(@, h.update)]]

\* _broadcast_to_room from its call to the suspension in the first send_text
broadcast_to_room(w, update, fails) ==
    LET sent == send_next([pc |-> "broadcast", update |-> update,
                           todo |-> attached, size |-> Cardinality(attached),
                           start |-> attached, attempted |-> {}, left |-> {}],
                          received, fails)
    IN  /\ endpoint' = [endpoint EXCEPT ![w] = sent.endpoint]
        /\ received' = sent.received
        /\ bc_last' = BcOp("send", w, attached, sent.endpoint.attempted, fails)

\* _handle_move -> _handle_omok_move with a well-formed move on a free
\* position: make_move, then _broadcast_game_update
HandleMove(w, fails) ==
    /\ w \in attached
    /\ endpoint[w].pc = "receive"
    /\ Len(applied) < MaxMutations
    /\ IF w = current_player
       THEN /\ applied' = Append(applied, "move")
            /\ current_player' = IF w = 1 THEN 2 ELSE 1
            /\ broadcast_to_room(w, Len(applied) + 1, fails)
       ELSE \* not the player's turn, or no player: _send_error to the sender
            /\ ~fails
            /\ bc_last' = BcOp("rejected", w, {}, {}, FALSE)
            /\ UNCHANGED <<applied, current_player, endpoint, received>>
    /\ UNCHANGED <<attached, notMove>>

\* _handle_chat_message with a well-formed message and the sender's session id
HandleChat(w, fails) ==
    /\ w \in attached
    /\ endpoint[w].pc = "receive"
    /\ Len(applied) < MaxMutations
    /\ IF w \in {1, 2}
       THEN /\ applied' = Append(applied, "chat")
            /\ broadcast_to_room(w, Len(applied) + 1, fails)
            /\ UNCHANGED current_player
       ELSE \* no player of the room: _send_error to the sender
            /\ ~fails
            /\ bc_last' = BcOp("rejected", w, {}, {}, FALSE)
            /\ UNCHANGED <<applied, current_player, endpoint, received>>
    /\ UNCHANGED <<attached, notMove>>

\* the send_text a broadcast was suspended in has returned or raised: the
\* for statement asks the set iterator for the next websocket.  The iterator
\* raises RuntimeError (Set changed size during iteration) when the set has
\* not the size it had when the loop began; the error leaves
\* _broadcast_to_room and is caught by the handler, whose call is over
BroadcastSend(w, fails) ==
    /\ endpoint[w].pc = "broadcast"
    /\ LET h == endpoint[w]
       IN  IF Cardinality(attached) # h.size
           THEN /\ ~fails
                /\ endpoint' = [endpoint EXCEPT ![w] = Receiving]
                /\ bc_last' = BcOp("runtime_error", w, h.start \ h.left, h.attempted, FALSE)
                /\ UNCHANGED received
           ELSE IF h.todo = {}
           THEN /\ ~fails
                /\ endpoint' = [endpoint EXCEPT ![w] = Receiving]
                /\ bc_last' = BcOp("done", w, h.start \ h.left, h.attempted, FALSE)
                /\ UNCHANGED received
           ELSE LET sent == send_next(h, received, fails)
                IN  /\ endpoint' = [endpoint EXCEPT ![w] = sent.endpoint]
                    /\ received' = sent.received
                    /\ bc_last' = BcOp("send", w, h.start \ h.left,
                                       sent.endpoint.attempted, fails)
    /\ UNCHANGED <<applied, current_player, attached, notMove>>

\* websocket_endpoint: receive_text of w raises WebSocketDisconnect and
\* remove_connection discards w from the set; the iterators of the broadcasts
\* under way no longer come across it
Detach(w) ==
    /\ w \in attached
    /\ endpoint[w].pc = "receive"
    /\ attached' = attached \ {w}
    /\ endpoint' = [b \in Connections |->
                       IF endpoint[b].pc = "broadcast"
                       THEN [endpoint[b] EXCEPT !.todo = @ \ {w},
                                                !.left = @ \cup {w}]
                       ELSE endpoint[b]]
    /\ bc_last' = BcOp("detach", w, {}, {}, FALSE)
    /\ UNCHANGED <<applied, current_player, received, notMove>>

\* a websocket joins or reconnects: add_connection adds it to the set, in a
\* slot that is ahead of the iterators of the broadcasts in ahead and behind
\* those of the others (a broadcast serves one websocket name once: the
\* name of a websocket that left is taken by a new one)
Attach(w, ahead) ==
    /\ w \notin attached
    /\ ahead \subseteq {b \in Connections : /\ endpoint[b].pc = "broadcast"
                                            /\ w \notin endpoint[b].attempted}
    /\ attached' = attached \cup {w}
    /\ endpoint' = [b \in Connections |->
                       IF b \in ahead
                       THEN [endpoint[b] EXCEPT !.todo = @ \cup {w}]
                       ELSE endpoint[b]]
    /\ bc_last' = BcOp("attach", w, {}, {}, FALSE)
    /\ UNCHANGED <<applied, current_player, received, notMove>>

NextMove ==
    \/ \E w \in Connections, fails \in BOOLEAN : HandleMove(w, fails)
    \/ \E w \in Connections, fails \in BOOLEAN : HandleChat(w, fails)
    \/ \E w \in Connections, fails \in BOOLEAN : BroadcastSend(w, fails)
    \/ \E w \in Connections : Detach(w)
    \/ \E w \in Connections, ahead \in SUBSET Connections : Attach(w, ahead)

\* ------------------------------------------------- one room and its game
\* One Room object: the lifecycle manager's player and reset operations, the
\* omok manager's moves, the handler's undo and chat, and the connection-state
\* updates of a disconnect and a reconnect.  g_rooms is the rooms dict, with at most
\* this room in it.
Cells == (0..(BoardSize - 1)) \X (0..(BoardSize - 1))

EmptyBoard == [c \in Cells |-> 0]

GameTypes == {"omok", "janggi"}

\* OmokManager.get_initial_state / JanggiManager.get_initial_state
get_initial_state(game_type) ==
    IF game_type = "omok"
    THEN [board |-> EmptyBoard, current_player |-> FIRST_PLAYER]
    ELSE [board |-> None, current_player |-> "red"]

\* BaseGameManager.create_room with Room's defaults
create_room(game_type) ==
    [game_type |-> game_type, players |-> <<>>,
     game_state |-> get_initial_state(game_type), status |-> "waiting",
     game_ended |-> FALSE, winner |-> None, move_history |-> <<>>,
     games_played |-> 0, last_winner |-> None, chat_history |-> <<>>,
     undo_requests |-> None]

GOp(op, result) == [op |-> op, result |-> result]

\* the id of the room
TheRoom == 1

g_exists == TheRoom \in DOMAIN g_rooms

g_room == g_rooms[TheRoom]

InitGame ==
    /\ g_rooms = EmptyDict
    /\ g_last = GOp("init", None)

\* ---- OmokGame
InRange(x, y) == x \in 0..(BoardSize - 1) /\ y \in 0..(BoardSize - 1)

is_valid_move(board, x, y) == InRange(x, y) /\ board[<<x, y>>] = 0

\* the number of consecutive stones of player next to (x, y) in direction
\* (dx, dy), at most WinningCount - 1
Run(board, x, y, dx, dy, player) ==
    Cardinality({k \in 1..(WinningCount - 1) :
        \A i \in 1..k : /\ InRange(x + dx * i, y + dy * i)
                        /\ board[<<x + dx * i, y + dy * i>>] = player})

Directions == {<<0, 1>>, <<1, 0>>, <<1, 1>>, <<1, -1>>}

\* whether check_win returns a line
check_win(board, x, y, player) ==
    \E d \in Directions :
        1 + Run(board, x, y, d[1], d[2], player)
          + Run(board, x, y, -d[1], -d[2], player) = WinningCount

create_move_history_entry(x, y, board_state, player) ==
    [move |-> [x |-> x, y |-> y, player |-> player],
     board_state |-> board_state, player |-> player]

Front(seq) == SubSeq(seq, 1, Len(seq) - 1)

\* variant: the turn is left where it was
undo_last_move_keep_turn(game_state, move_history) ==
    IF move_history = <<>>
    THEN [ok |-> FALSE, game_state |-> game_state, move_history |-> move_history]
    ELSE LET rest == Front(move_history)
         IN  [ok |-> TRUE,
              game_state |->
                  IF rest # <<>>
                  THEN [board |-> rest[Len(rest)].board_state,
                        current_player |-> game_state.current_player]
                  ELSE [board |-> EmptyBoard, current_player |-> FIRST_PLAYER],
              move_history |-> rest]

\* returns whether the undo was made, and the game state and the history
\* after the call
undo_last_move(game_state, move_history) ==
    IF move_history = <<>>
    THEN [ok |-> FALSE, game_state |-> game_state, move_history |-> move_history]
    ELSE LET undone_move_player == move_history[Len(move_history)].player
             rest == Front(move_history)
         IN  [ok |-> TRUE,
              game_state |->
                  IF rest # <<>>
                  THEN [board |-> rest[Len(rest)].board_state,
                        current_player |-> undone_move_player]
                  ELSE [board |-> EmptyBoard, current_player |-> FIRST_PLAYER],
              move_history |-> rest]

\* ---- OmokManager
\* colors: what random.shuffle leaves in [1, 2]
assign_colors(room, colors) ==
    IF Len(room.players) # 2 THEN room
    ELSE IF room.games_played = 0
    THEN [room EXCEPT !.players[1].color = colors[1],
                      !.players[2].color = colors[2]]
    ELSE IF room.last_winner # None
    THEN [room EXCEPT !.players =
             [i \in 1..2 |->
                 [room.players[i] EXCEPT !.color =
                     IF room.players[i].player_number = room.last_winner
                     THEN 2 ELSE 1]]]
    ELSE room

omok_reset_game(room, colors) ==
    LET r1 == assign_colors([room EXCEPT !.games_played = @ + 1], colors)
    IN  [r1 EXCEPT !.game_ended = FALSE, !.winner = None,
                   !.game_state = get_initial_state("omok"),
                   !.move_history = <<>>, !.undo_requests = None]

validate_move(room, player, x, y) ==
    /\ ~room.game_ended
    /\ player.color = room.game_state.current_player
    /\ InRange(x, y)
    /\ is_valid_move(room.game_state.board, x, y)

\* i: the index of the moving player in room.players
make_move(room, i, x, y) ==
    LET player == room.players[i]
    IN  IF ~validate_move(room, player, x, y) THEN [ok |-> FALSE, room |-> room]
        ELSE LET board == [room.game_state.board EXCEPT ![<<x, y>>] = player.color]
                 entry == create_move_history_entry(x, y, board, player.color)
                 hist == Append(room.move_history, entry)
             IN  IF check_win(board, x, y, player.color)
                 THEN [ok |-> TRUE,
                       room |-> [room EXCEPT
                           !.move_history = hist,
                           !.game_ended = TRUE,
                           !.winner = player.player_number,
                           !.last_winner = player.player_number,
                           !.game_state.board = board]]
                 ELSE [ok |-> TRUE,
                       room |-> [room EXCEPT
                           !.move_history = hist,
                           !.game_state = [board |-> board,
                               current_player |-> IF player.color = 1 THEN 2
                                                  ELSE 1]]]

\* ---- RoomLifecycleManager on the room
\* Player's color field defaults to None
WithColor(p) == [session_id |-> p.session_id, player_number |-> p.player_number, is_connected |-> p.is_connected, color |-> None]

\* add_player_to_room with the colour assignment of the second player
add_player_with_colors(room, session_id, colors) ==
    LET res == add_player_to_room(room, session_id)
        n == Len(res.room.players)
    IN  IF n = Len(room.players) THEN res
        ELSE LET r1 == [res.room EXCEPT !.players[n] = WithColor(@)]
             IN  [room |-> IF n = 2 /\ r1.game_type = "omok"
                           THEN assign_colors(r1, colors) ELSE r1,
                  player |-> res.player]

\* reset_game on an existing room
reset_game(room, colors) ==
    IF room.game_type = "omok" THEN omok_reset_game(room, colors)
    ELSE room

\* update_player_connection_status by session id, on the room
set_connected(room, session_id, is_connected) ==
    IF PlayerIdx(room, session_id) = {} THEN room
    ELSE [room EXCEPT !.players[FirstIdx(PlayerIdx(room, session_id))].is_connected = is_connected]

\* variant: the game state of a new game is sent
reconnect_success_initial_state(room, i) ==
    [player |-> [player_number |-> room.players[i].player_number,
                 color |-> room.players[i].color],
     room |-> [game_type |-> room.game_type,
               players |-> [j \in 1..Len(room.players) |->
                   [player_number |-> room.players[j].player_number,
                    is_connected |-> room.players[j].is_connected,
                    color |-> room.players[j].color]],
               game_state |-> get_initial_state(room.game_type),
               status |-> room.status, game_ended |-> room.game_ended,
               winner |-> room.winner, games_played |-> room.games_played,
               chat_history |-> room.chat_history],
     move_history |-> [j \in 1..Len(room.move_history) |->
         [move |-> room.move_history[j].move,
          player |-> room.move_history[j].player]]]

\* the data of the reconnect_success message for the player at index i
reconnect_success(room, i) ==
    [player |-> [player_number |-> room.players[i].player_number,
                 color |-> room.players[i].color],
     room |-> [game_type |-> room.game_type,
               players |-> [j \in 1..Len(room.players) |->
                   [player_number |-> room.players[j].player_number,
                    is_connected |-> room.players[j].is_connected,
                    color |-> room.players[j].color]],
               game_state |-> room.game_state,
               status |-> room.status, game_ended |-> room.game_ended,
               winner |-> room.winner, games_played |-> room.games_played,
               chat_history |-> room.chat_history],
     move_history |-> [j \in 1..Len(room.move_history) |->
         [move |-> room.move_history[j].move,
          player |-> room.move_history[j].player]]]

\* ---- the calls
G_create_room(game_type) ==
    /\ ~g_exists
    /\ g_rooms' = (TheRoom :> create_room(game_type))
    /\ g_last' = GOp("create", game_type)
    /\ UNCHANGED notGame

G_delete_room ==
    /\ g_exists
    /\ g_rooms' = EmptyDict
    /\ g_last' = GOp("delete", TRUE)
    /\ UNCHANGED notGame

\* result: the player_number of the returned player, None when None is returned
G_add_player_to_room(session_id, colors) ==
    /\ IF ~g_exists
       THEN /\ g_last' = GOp("add", None)
            /\ UNCHANGED g_rooms
       ELSE LET res == add_player_with_colors(g_room, session_id, colors)
            IN  /\ g_rooms' = (TheRoom :> res.room)
                /\ g_last' = GOp("add", IF res.player = None THEN None
                                 ELSE res.room.players[res.player].player_number)
    /\ UNCHANGED notGame

G_remove_player_from_room(session_id) ==
    /\ IF ~g_exists
       THEN /\ g_last' = GOp("remove", None)
            /\ UNCHANGED g_rooms
       ELSE LET res == remove_player_from_room(g_room, session_id)
            IN  /\ g_rooms' = (TheRoom :> res.room)
                /\ g_last' = GOp("remove", res.player)
    /\ UNCHANGED notGame

\* _handle_omok_move: the move of the player of the session, made by
\* OmokManager.make_move
G_make_move(session_id, x, y) ==
    /\ g_exists
    /\ g_room.game_type = "omok"
    /\ IF PlayerIdx(g_room, session_id) = {}
       THEN /\ g_last' = GOp("move_error", None)
            /\ UNCHANGED g_rooms
       ELSE LET res == make_move(g_room, FirstIdx(PlayerIdx(g_room, session_id)), x, y)
            IN  /\ g_rooms' = (TheRoom :> res.room)
                /\ g_last' = GOp("move", res.ok)
    /\ UNCHANGED notGame

\* _handle_omok_undo, called when the opponent accepts an undo request
G_undo ==
    /\ g_exists
    /\ g_room.game_type = "omok"
    /\ LET res == undo_last_move(g_room.game_state, g_room.move_history)
       IN  /\ g_rooms' = (TheRoom :> [g_room EXCEPT
                                          !.game_state = res.game_state,
                                          !.move_history = res.move_history])
           /\ g_last' = GOp("undo", res.ok)
    /\ UNCHANGED notGame

\* RoomLifecycleManager.reset_game; result: the value returned
G_reset_game(colors) ==
    /\ IF ~g_exists
       THEN /\ g_last' = GOp("reset", FALSE)
            /\ UNCHANGED g_rooms
       ELSE /\ g_room.games_played < MaxGames
            /\ g_rooms' = (TheRoom :> reset_game(g_room, colors))
            /\ g_last' = GOp("reset", TRUE)
    /\ UNCHANGED notGame

\* _handle_chat_message of a player of the room; a chat entry is kept as the
\* sender's player_number.  The history stays below the 50 entries at which
\* the oldest is dropped
G_chat(session_id) ==
    /\ g_exists
    /\ Len(g_room.chat_history) < MaxChat
    /\ IF PlayerIdx(g_room, session_id) = {}
       THEN /\ g_last' = GOp("chat_error", None)
            /\ UNCHANGED g_rooms
       ELSE LET sender == g_room.players[FirstIdx(PlayerIdx(g_room, session_id))]
            IN  /\ g_rooms' = (TheRoom :> [g_room EXCEPT !.chat_history =
                                                Append(@, sender.player_number)])
                /\ g_last' = GOp("chat", None)
    /\ UNCHANGED notGame

\* _handle_disconnect of a websocket bound to the session: remove_connection
\* marks the player disconnected
G_disconnect(session_id) ==
    /\ g_exists
    /\ g_rooms' = (TheRoom :> set_connected(g_room, session_id, FALSE))
    /\ g_last' = GOp("disconnect", None)
    /\ UNCHANGED notGame

\* _handle_reconnect for the session; result: the data of the
\* reconnect_success message, and whether the player was marked connected
\* before
G_reconnect(session_id) ==
    /\ IF ~g_exists \/ PlayerIdx(g_room, session_id) = {}
       THEN /\ g_last' = GOp("reconnect_error", None)
            /\ UNCHANGED g_rooms
       ELSE LET room == set_connected(g_room, session_id, TRUE)
            IN  /\ g_rooms' = (TheRoom :> room)
                /\ g_last' = GOp("reconnect",
                       [data |-> reconnect_success(room, FirstIdx(PlayerIdx(room, session_id))),
                        was_connected |-> g_room.players[FirstIdx(PlayerIdx(room, session_id))].is_connected])
    /\ UNCHANGED notGame

Shuffles == {<<1, 2>>, <<2, 1>>}

\* the coordinates a move message carries: those of the board and one
\* outside it
MoveInputs == Cells \cup {<<BoardSize, 0>>}

NextGame ==
    \/ \E gt \in GameTypes : G_create_room(gt)
    \/ G_delete_room
    \/ \E s \in Sessions, colors \in Shuffles : G_add_player_to_room(s, colors)
    \/ \E s \in Sessions : G_remove_player_from_room(s)
    \/ \E s \in Sessions, c \in MoveInputs : G_make_move(s, c[1], c[2])
    \/ G_undo
    \/ \E colors \in Shuffles : G_reset_game(colors)
    \/ \E s \in Sessions : G_chat(s)

\* _handle_undo_request of a websocket bound to the session.  undo_requests
\* is kept as the requester's session id (None: the dict is empty)
G_undo_request(session_id) ==
    /\ g_exists
    /\ IF g_room.move_history = <<>> \/ g_room.game_ended
       THEN /\ g_last' = GOp("undo_request", FALSE)
            /\ UNCHANGED g_rooms
       ELSE IF PlayerIdx(g_room, session_id) = {}
       THEN /\ g_last' = GOp("undo_request_error", FALSE)
            /\ UNCHANGED g_rooms
       ELSE /\ g_rooms' = (TheRoom :> [g_room EXCEPT !.undo_requests = session_id])
            /\ g_last' = GOp("undo_request", TRUE)
    /\ UNCHANGED notGame

\* _handle_undo_response for the responder's session: whether an undo was
\* made, and the room after the call
undo_response(room, session_id, accepted) ==
    IF session_id = room.undo_requests THEN [applied |-> FALSE, room |-> room]
    ELSE IF accepted /\ room.move_history # <<>> /\ room.game_type = "omok"
    THEN LET res == undo_last_move(room.game_state, room.move_history)
         IN  [applied |-> res.ok,
              room |-> [room EXCEPT !.game_state = res.game_state,
                                    !.move_history = res.move_history,
                                    !.undo_requests = None]]
    ELSE [applied |-> FALSE, room |-> [room EXCEPT !.undo_requests = None]]

\* result: the responder's session, whether the undo was made, and the
\* request that was pending
G_undo_response(session_id, accepted) ==
    /\ g_exists
    /\ LET res == undo_response(g_room, session_id, accepted)
       IN  /\ g_rooms' = (TheRoom :> res.room)
           /\ g_last' = GOp("undo_response",
                            [sid |-> session_id, applied |-> res.applied,
                             pending |-> g_room.undo_requests])
    /\ UNCHANGED notGame

\* the room while its players move, ask for undos, answer them and restart
NextUndo ==
    \/ \E gt \in GameTypes : G_create_room(gt)
    \/ \E s \in Sessions, colors \in Shuffles : G_add_player_to_room(s, colors)
    \/ \E s \in Sessions, c \in MoveInputs : G_make_move(s, c[1], c[2])
    \/ \E s \in Sessions : G_undo_request(s)
    \/ \E s \in Sessions, accepted \in BOOLEAN : G_undo_response(s, accepted)
    \/ \E colors \in Shuffles : G_reset_game(colors)

\* the room while its players play, chat, lose their connection and come back
NextReconnect ==
    \/ \E gt \in GameTypes : G_create_room(gt)
    \/ \E s \in Sessions, colors \in Shuffles : G_add_player_to_room(s, colors)
    \/ \E s \in Sessions, c \in MoveInputs : G_make_move(s, c[1], c[2])
    \/ \E s \in Sessions : G_chat(s)
    \/ \E s \in Sessions : G_disconnect(s)
    \/ \E s \in Sessions : G_reconnect(s)

\* ------------------------------------------------------- chat history
\* One room's chat_history under _handle_chat_message.  ch_accepted lists
\* every message the handler accepted, in order.  The history keeps
\* MaxChatHistory entries where the code keeps 50.
ChatTexts == 0..MaxTexts

ChatOp(op, s) == [op |-> op, sid |-> s]

InitChat ==
    /\ ch_room = [players |-> <<>>, status |-> "waiting", chat_history |-> <<>>]
    /\ ch_accepted = <<>>
    /\ ch_last = ChatOp("init", None)

\* variant: the newest entry is dropped
append_chat_drop_newest(chat_history, chat_message) ==
    LET h == Append(chat_history, chat_message)
    IN  IF Len(h) > MaxChatHistory THEN SubSeq(h, 1, Len(h) - 1) ELSE h

\* chat_history.append(chat_message), then pop(0) above the limit
append_chat(chat_history, chat_message) ==
    LET h == Append(chat_history, chat_message)
    IN  IF Len(h) > MaxChatHistory THEN Tail(h) ELSE h

\* a player joins the room
ChatJoin(session_id) ==
    /\ ch_room' = add_player_to_room(ch_room, session_id).room
    /\ ch_last' = ChatOp("join", session_id)
    /\ UNCHANGED <<ch_accepted, notChat>>

\* _handle_chat_message; text 0 is an empty message, session None a message
\* without session_id
ChatMessage(session_id, text) ==
    /\ Len(ch_accepted) < MaxAccepted
    /\ IF text = 0 \/ session_id = None \/ PlayerIdx(ch_room, session_id) = {}
       THEN /\ ch_last' = ChatOp("error", session_id)
            /\ UNCHANGED <<ch_room, ch_accepted>>
       ELSE LET sender == ch_room.players[FirstIdx(PlayerIdx(ch_room, session_id))]
                chat_message == [player_number |-> sender.player_number,
                                 message |-> text]
            IN  /\ ch_room' = [ch_room EXCEPT !.chat_history =
                                   append_chat(@, chat_message)]
                /\ ch_accepted' = Append(ch_accepted, chat_message)
                /\ ch_last' = ChatOp("chat", session_id)
    /\ UNCHANGED notChat

NextChat ==
    \/ \E s \in Sessions : ChatJoin(s)
    \/ \E s \in Sessions \cup {None}, text \in ChatTexts : ChatMessage(s, text)

\* ------------------------------------------------- connection registry
\* A ConnectionManager of its own under add_connection, remove_connection
\* and handle_reconnection, called with any room, websocket and session.
InitRegistry ==
    /\ cm_connections = [x \in {} |-> {}]
    /\ cm_websocket_sessions = <<>>
    /\ cm_session_to_room = EmptyDict
    /\ cm_last = [op |-> "init", room |-> None, ws |-> None, sid |-> None,
                  old |-> None]

\* remove_connection: the connection sets and the bindings after the call,
\* and the session id it returns
CM_remove_connection(conns, ws_sess, s2r, room_id, websocket) ==
    LET left == IF room_id \in DOMAIN conns
                THEN conns[room_id] \ {websocket} ELSE {}
        conns1 == IF room_id \notin DOMAIN conns THEN conns
                  ELSE IF left = {} THEN Del(conns, room_id)
                  ELSE Put(conns, room_id, left)
        m == CM_drop_session_mapping(ws_sess, s2r, websocket)
    IN  [conns |-> conns1, ws_sess |-> m.ws_sess, s2r |-> m.s2r,
         sid |-> OD_Get(ws_sess, websocket)]

Reg_add_connection(room_id, websocket, session_id) ==
    /\ LET res == CM_add_connection(cm_connections, cm_websocket_sessions,
                       cm_session_to_room, room_id, websocket, session_id)
       IN  /\ cm_connections' = res.conns
           /\ cm_websocket_sessions' = res.ws_sess
           /\ cm_session_to_room' = res.s2r
    /\ cm_last' = [op |-> "add", room |-> room_id, ws |-> websocket,
                   sid |-> session_id, old |-> None]
    /\ UNCHANGED notReg

Reg_remove_connection(room_id, websocket) ==
    /\ LET res == CM_remove_connection(cm_connections, cm_websocket_sessions,
                       cm_session_to_room, room_id, websocket)
       IN  /\ cm_connections' = res.conns
           /\ cm_websocket_sessions' = res.ws_sess
           /\ cm_session_to_room' = res.s2r
           /\ cm_last' = [op |-> "remove", room |-> room_id, ws |-> websocket,
                          sid |-> res.sid, old |-> None]
    /\ UNCHANGED notReg

Reg_handle_reconnection(room_id, websocket, session_id) ==
    /\ LET res == CM_handle_reconnection(cm_connections,
                       cm_websocket_sessions, cm_session_to_room, room_id,
                       websocket, session_id)
       IN  /\ cm_connections' = res.conns
           /\ cm_websocket_sessions' = res.ws_sess
           /\ cm_session_to_room' = res.s2r
    /\ cm_last' = [op |-> "reconnect", room |-> room_id, ws |-> websocket,
                   sid |-> session_id,
                   old |-> OldWebsocket(cm_websocket_sessions, session_id)]
    /\ UNCHANGED notReg

NextRegistry ==
    \/ \E r \in RoomIds, w \in WebSockets, s \in Sessions \cup {None} :
           Reg_add_connection(r, w, s)
    \/ \E r \in RoomIds, w \in WebSockets : Reg_remove_connection(r, w)
    \/ \E r \in RoomIds, w \in WebSockets, s \in Sessions :
           Reg_handle_reconnection(r, w, s)

vars == <<coordVars, busVars, sessVars, lifeVars, timerVars, moveVars, gameVars,
          chatVars, regVars>>

Init ==
    /\ InitCoord /\ InitBus /\ InitSession /\ InitLife /\ InitTimer /\ InitMove
    /\ InitGame /\ InitChat /\ InitRegistry

Spec == Init /\ [][Next]_vars

SpecBus == Init /\ [][NextBus]_vars

SpecSession == Init /\ [][NextSession]_vars

SpecLife == Init /\ [][NextLife]_vars

SpecTimer == Init /\ [][NextTimer]_vars

SpecMove == Init /\ [][NextMove]_vars

SpecGame == Init /\ [][NextGame]_vars

SpecReconnect == Init /\ [][NextReconnect]_vars

SpecChat == Init /\ [][NextChat]_vars

SpecUndo == Init /\ [][NextUndo]_vars

SpecResubscribe == Init /\ [][NextResubscribe]_vars

SpecRegistry == Init /\ [][NextRegistry]_vars

\* ============================================================== claims
\* rooms that were created and are gone
DeletedRooms == (1..next_room) \ DOMAIN rooms

\* C1: a room holds at most one connection per session: after any attach or
\* reconnect no two websockets of a room's connection set are bound to the
\* same session id
C1_OneConnectionPerSession ==
    \A r \in DOMAIN connections : \A s \in Sessions :
        Cardinality({w \in connections[r] :
            get_session_id_by_websocket(websocket_sessions, w) = s}) <= 1

\* C2: when a room has lost its last connection and its cleanup task is still
\* sleeping, a reconnect request for that room by the session of one of its
\* players removes the timer entry and cancels the task, so that no task of
\* the room is left to run; the room survives and the player is connected
C2_ReconnectCancelsTimer ==
    [][\A r \in DOMAIN rooms :
        (/\ last'.op = "reconnect" /\ last'.room = r
         /\ PlayerIdx(rooms[r], last'.sid) # {}
         /\ r \in DOMAIN connections /\ connections[r] = {}
         /\ r \in room_timers /\ TasksOf(tasks, r) > 0)
        => (/\ r \notin room_timers'
            /\ TasksOf(tasks', r) = 0
            /\ r \in DOMAIN rooms'
            /\ \A i \in PlayerIdx(rooms'[r], last'.sid) :
                  rooms'[r].players[i].is_connected)]_vars

\* C3: a room that disappears as its cleanup task runs had, at that moment, a
\* connection set that was empty and only disconnected players
C3_TimerDeletesOnlyAbandoned ==
    [][\A r \in DOMAIN rooms :
        (last'.op = "fire" /\ last'.room = r /\ r \notin DOMAIN rooms')
        => (/\ r \in DOMAIN connections
            /\ connections[r] = {}
            /\ \A i \in 1..Len(rooms[r].players) :
                  ~rooms[r].players[i].is_connected)]_vars

C3_Witness ==
    /\ last.op = "fire" /\ last.reply = "deleted"
    /\ last.room \in DeletedRooms

\* C4: once the cleanup task has deleted a room, the room is gone and exactly
\* one RoomDeleted event for it has been published
C4_DeletedRoomPublishedOnce ==
    (last.op = "fire" /\ last.reply = "deleted")
    => (/\ last.room \notin DOMAIN rooms
        /\ Cardinality({i \in 1..Len(published) :
                           published[i].room_id = last.room}) = 1)

\* C5: a deleted room stays deleted: it has no room, connection set or timer
\* entry, and a reconnect addressed to it is refused
C5_NoResurrection ==
    \A r \in DeletedRooms :
        /\ r \notin DOMAIN connections
        /\ r \notin room_timers
        /\ (last.op = "reconnect" /\ last.room = r) => last.reply # "ok"

C5_Witness ==
    /\ last.op = "reconnect"
    /\ last.room \in DeletedRooms
    /\ last.reply = "game_not_found"

\* C6: when a publish call is over it has returned normally, and every handler
\* it collected has run exactly once, whichever of them raised
C6_HandlerErrorsIsolated ==
    pub.pc = "done"
    => (/\ pub.outcome = "returned"
        /\ \A i \in 1..Len(pub.to_run) :
              Cardinality({j \in 1..Len(pub.ran) : pub.ran[j].idx = i}) = 1)

C6_Witness ==
    /\ pub.pc = "done"
    /\ \E j, k \in 1..Len(pub.ran) :
          /\ j < k
          /\ pub.ran[j].raised
          /\ ~IsAsync(pub.to_run[pub.ran[j].idx][2])

\* C7: a room never holds two players with the same session id, and a player
\* once added keeps the session id and player number it was given, whatever
\* joins follow
C7_IdempotentRejoin ==
    /\ [](\A r \in DOMAIN rooms : \A s \in Sessions :
            Cardinality(PlayerIdx(rooms[r], s)) <= 1)
    /\ [][\A r \in (DOMAIN rooms) \cap (DOMAIN rooms') :
            \A i \in 1..Len(rooms[r].players) :
                /\ i <= Len(rooms'[r].players)
                /\ rooms'[r].players[i].session_id
                       = rooms[r].players[i].session_id
                /\ rooms'[r].players[i].player_number
                       = rooms[r].players[i].player_number]_vars

C7_Witness ==
    /\ last.op = "join" /\ last.reply = "ok" /\ last.note = "rejoin"
    /\ Cardinality(PlayerIdx(rooms[last.room], last.sid)) = 1

\* C8: a join whose session id belongs to a player of the room succeeds, in
\* every state of the room, and leaves that player connected
C8_RejoinReturnsExisting ==
    (last.op = "join" /\ last.sid # None)
    => (/\ last.reply = "ok"
        /\ \A i \in PlayerIdx(rooms[last.room], last.sid) :
              rooms[last.room].players[i].is_connected)

\* C9: an access to a stored session less than the timeout after its last
\* touch returns its data and leaves it stored unchanged; an access more than
\* the timeout after its last touch returns nothing and removes it
C9_SessionTtl ==
    [][\A s \in DOMAIN sessions :
        (sess_last'.op = "get" /\ sess_last'.sid = s)
        => (/\ now < sessions[s].last_seen + session_timeout
               => (/\ sess_last'.result = "data"
                   /\ s \in DOMAIN sessions'
                   /\ sessions'[s] = sessions[s])
            /\ now > sessions[s].last_seen + session_timeout
               => (/\ sess_last'.result = "none"
                   /\ s \notin DOMAIN sessions'))]_vars

C9_Witness ==
    /\ sess_last.op = "get" /\ sess_last.found
    /\ sess_last.result = "none"
    /\ sess_last.sid \notin DOMAIN sessions

\* C10: when the endpoint of a websocket bound to the session of a player of
\* its room ends, the websocket leaves the connection set, exactly that
\* player becomes disconnected, the room and its players stay, and if the set
\* is now empty a cleanup task is left sleeping for the room
C10_DisconnectKeepsPlayer ==
    [][\A w \in WebSockets :
        LET r == sock[w].room
            sid == get_session_id_by_websocket(websocket_sessions, w)
        IN  (/\ sock[w].state = "open" /\ sock'[w].state = "new"
             /\ sid # None
             /\ r \in DOMAIN rooms /\ PlayerIdx(rooms[r], sid) # {}
             /\ r \in DOMAIN connections /\ w \in connections[r])
            => (/\ r \in DOMAIN connections'
                /\ connections'[r] = connections[r] \ {w}
                /\ r \in DOMAIN rooms'
                /\ rooms'[r] = [rooms[r] EXCEPT
                       !.players[FirstIdx(PlayerIdx(rooms[r], sid))]
                           .is_connected = FALSE]
                /\ (connections'[r] = {}
                      => r \in room_timers' /\ TasksOf(tasks', r) = 1))]_vars

C10_Witness ==
    /\ last.op = "disconnect" /\ last.sid # None
    /\ last.room \in DOMAIN rooms
    /\ \E i \in PlayerIdx(rooms[last.room], last.sid) :
          ~rooms[last.room].players[i].is_connected
    /\ last.room \in DOMAIN connections /\ connections[last.room] = {}
    /\ last.room \in room_timers /\ TasksOf(tasks, last.room) = 1

\* C11: a reconnect request for a room by a session that is a player of
\* another room, and not of that room, is refused as belonging to the other
\* room and changes nothing: no timer, task, connection set, binding or
\* player flag of any room
C11_WrongRoomReconnectRefused ==
    [][\A r \in RoomIds : \A s \in Sessions :
        (/\ last'.op = "reconnect" /\ last'.room = r /\ last'.sid = s
         /\ (r \in DOMAIN rooms => PlayerIdx(rooms[r], s) = {})
         /\ \E q \in DOMAIN rooms \ {r} : PlayerIdx(rooms[q], s) # {})
        => (/\ last'.reply = "other_room"
            /\ UNCHANGED <<rooms, connections, websocket_sessions,
                           session_to_room, room_timers, tasks>>)]_vars

C11_Witness ==
    /\ last.op = "reconnect" /\ last.reply = "other_room"
    /\ last.note = "timer"
    /\ last.room \in DOMAIN rooms
    /\ PlayerIdx(rooms[last.room], last.sid) = {}
    /\ last.room \in room_timers /\ TasksOf(tasks, last.room) = 1
    /\ connections[last.room] = {}

\* C12: in every reachable state every room has at most two players, and a
\* room whose status is playing has two players
C12_PlayersBounded ==
    \A r \in DOMAIN lc_rooms :
        /\ Len(lc_rooms[r].players) <= 2
        /\ (lc_rooms[r].status = "playing" => Len(lc_rooms[r].players) = 2)

C12_Witness ==
    /\ lc_last.op = "remove"
    /\ lc_last.result # None
    /\ lc_last.room \in DOMAIN lc_rooms
    /\ Len(lc_rooms[lc_last.room].players) = 1
    /\ lc_rooms[lc_last.room].status = "waiting"

\* C13: the player numbers of a room's players are pairwise distinct and lie
\* in 1..2
C13_PlayerNumbersDistinct ==
    \A r \in DOMAIN lc_rooms :
        LET ps == lc_rooms[r].players
        IN  /\ \A i \in 1..Len(ps) : ps[i].player_number \in 1..2
            /\ \A i, j \in 1..Len(ps) :
                   i # j => ps[i].player_number # ps[j].player_number

\* C14: a task that was never cancelled is the room's recorded timer for as
\* long as it is pending (also when it was scheduled over an earlier timer)
\* and has invoked the callback exactly once when it has ended
C14_RearmedTimerFiresOnce ==
    \A t \in 1..Len(rt_tasks) :
        ~rt_tasks[t].cancelled =>
            IF done(rt_tasks, t) THEN rt_tasks[t].calls = 1
            ELSE /\ has_timer(rt_tasks[t].room)
                 /\ rt_timers[rt_tasks[t].room] = t

\* C15: cancel_timer for a room returns true when a task scheduled for the
\* room is pending and was not cancelled, and otherwise returns false and
\* changes nothing; a cancelled task never invokes the callback
C15_CancelReturnsWhetherScheduled ==
    [][\A r \in RoomIds :
        (rt_last'.op = "cancel" /\ rt_last'.room = r)
        => /\ IF \E t \in 1..Len(rt_tasks) :
                     /\ rt_tasks[t].room = r
                     /\ ~done(rt_tasks, t)
                     /\ ~rt_tasks[t].cancelled
              THEN rt_last'.result = "true"
              ELSE rt_last'.result = "false" /\ UNCHANGED <<rt_timers, rt_tasks>>
           /\ \A t \in 1..Len(rt_tasks') :
                  rt_tasks'[t].cancelled => rt_tasks'[t].calls = 0]_vars

\* C16: when a task has invoked the callback, whether it returned or raised,
\* the room has no entry and the entries of the other rooms are as before; no
\* entry ever refers to a task that has ended
C16_FiredTimerCleared ==
    /\ [](\A r \in DOMAIN rt_timers : ~done(rt_tasks, rt_timers[r]))
    /\ [][\A r \in RoomIds :
            (rt_last'.op = "fire" /\ rt_last'.room = r)
            => /\ r \notin DOMAIN rt_timers'
               /\ ~has_timer(r)'
               /\ \A q \in RoomIds \ {r} :
                      /\ q \in DOMAIN rt_timers' <=> q \in DOMAIN rt_timers
                      /\ q \in DOMAIN rt_timers => rt_timers'[q] = rt_timers[q]]_vars

C16_Witness ==
    /\ rt_last.op = "fire"
    /\ rt_last.result = "raised"
    /\ rt_last.room \notin DOMAIN rt_timers
    /\ \E q \in RoomIds \ {rt_last.room} : has_timer(q)

\* C17: during a publish call the handlers do their work in descending
\* priority order: a handler never runs before a handler of strictly higher
\* priority of the same call
C17_PriorityOrder ==
    \A a, b \in 1..Len(pub.ran) :
        a < b => pub.to_run[pub.ran[a].idx][1] >= pub.to_run[pub.ran[b].idx][1]

Count(seq, e) == Cardinality({i \in 1..Len(seq) : seq[i] = e})

\* C18: when publish returns, every subscription to the event's type and
\* every global subscription has been invoked exactly once, every task made for
\* a coroutine handler has finished, and a handler subscribed only to other
\* event types has not been invoked
C18_AllMatchingHandlersOnce ==
    (pub.pc = "done" /\ pub.outcome = "returned")
    => LET typed == HandlersOf(bus_handlers, pub.event)
       IN  /\ \A e \in Priorities \X Handlers :
                  Count(pub.to_run, e)
                      = Count(bus_global_handlers, e) + Count(typed, e)
           /\ \A i \in 1..Len(pub.to_run) :
                  Cardinality({k \in 1..Len(pub.ran) : pub.ran[k].idx = i}) = 1
           /\ Len(pub.ran) = Len(pub.to_run)
           /\ pub.pending = {}
           /\ \A h \in Handlers :
                  (\A p \in Priorities :
                       Count(bus_global_handlers, <<p, h>>) + Count(typed, <<p, h>>) = 0)
                  => \A k \in 1..Len(pub.ran) : pub.to_run[pub.ran[k].idx][2] # h

C18_Witness ==
    /\ pub.pc = "done"
    /\ pub.outcome = "returned"
    /\ \E k \in 1..Len(pub.ran) : IsAsync(pub.to_run[pub.ran[k].idx][2])
    /\ \E t \in DOMAIN bus_handlers \ {pub.event} :
           \E j \in 1..Len(bus_handlers[t]) :
               \A i \in 1..Len(pub.to_run) :
                   pub.to_run[i][2] # bus_handlers[t][j][2]

\* C20: the handling of a client message never ends with an exception and
\* leaves every open websocket, the sender's included, open
C20_NoExceptionLeavesHandler ==
    [][last'.op \in {"join", "reconnect", "message"}
       => /\ last'.reply # "exception"
          /\ \A w \in WebSockets :
                 sock[w].state = "open" => sock'[w].state = "open"]_vars

\* C19: while the notification of a mutation is still being sent to the
\* room's websockets no later mutation has been made, and every websocket is
\* sent the notifications in the order in which the mutations were made
C19_RoomMutationsSerialized ==
    /\ \A w \in Connections :
           endpoint[w].pc = "broadcast" => endpoint[w].update = Len(applied)
    /\ \A w \in Connections :
           \A i, j \in 1..Len(received[w]) :
               i < j => received[w][i] < received[w][j]

\* C21: update_session (update_player_info) or set_room_id on a session whose
\* timeout has elapsed does not refresh it: the session is removed from the
\* store
C21_ExpiredSessionNotRefreshed ==
    [][\A s \in Sessions :
        (/\ sess_last'.op \in {"update", "set_room"}
         /\ sess_last'.sid = s
         /\ s \in DOMAIN sessions
         /\ _is_session_expired(sessions[s], now))
        => s \notin DOMAIN sessions']_vars

\* C22: create_session never returns an id that identifies a session of the
\* store: every call adds exactly one session and leaves the others as they
\* were
C22_CreateNeverOverwrites ==
    [][sess_last'.op = "create"
       => /\ sess_last'.sid \notin DOMAIN sessions
          /\ \A s \in DOMAIN sessions :
                 s \in DOMAIN sessions' /\ sessions'[s] = sessions[s]]_vars

\* C23: a broadcast goes over a snapshot of the room's connections: it never
\* ends with an error when websockets are attached or detached during its
\* sends, and when it ends send_text has been called on every websocket that
\* was in the room from its start to its end
C23_BroadcastOverSnapshot ==
    /\ bc_last.op # "runtime_error"
    /\ bc_last.op = "done" => bc_last.stayed \subseteq bc_last.attempted

\* C30: when a broadcast ends, send_text has been called on every websocket
\* that was in the room from its start to its end, and a send_text that
\* raised has not ended the broadcast
C30_SendFailureDoesNotStopBroadcast ==
    /\ bc_last.op \in {"done", "runtime_error"}
           => bc_last.stayed \subseteq bc_last.attempted
    /\ (bc_last.op = "send" /\ bc_last.failed)
           => endpoint[bc_last.ws].pc = "broadcast"

C26_CleanupDeletesOnlyEmptyRooms ==
    [][lc_last'.op = "cleanup" =>
          \A r \in DOMAIN lc_rooms \ DOMAIN lc_rooms' :
              /\ lc_rooms[r].players = <<>>
              /\ lc_rooms[r].status \in {"waiting", "ended"}]_vars

\* session id and player number of the room's players, in order
Identities(room) == [i \in 1..Len(room.players) |-> <<room.players[i].session_id, room.players[i].player_number>>]

\* C25: reset_game on an existing room of any game type leaves the game state
\* initial, the move history empty and games_played one more than before, and
\* leaves the players' identities and the chat history as they were; on a
\* missing room it returns False and changes nothing
C25_ResetGame ==
    [][g_last'.op = "reset" =>
          IF g_exists
          THEN /\ g_last'.result = TRUE
               /\ g_room'.game_state = get_initial_state(g_room.game_type)
               /\ g_room'.move_history = <<>>
               /\ g_room'.games_played = g_room.games_played + 1
               /\ Identities(g_room') = Identities(g_room)
               /\ g_room'.chat_history = g_room.chat_history
          ELSE g_last'.result = FALSE /\ g_rooms' = g_rooms]_vars

\* C27: an accepted undo takes back exactly the last move: the board is the
\* board without the stone of that move, the history is the history without
\* its last entry and the turn is that of the player whose move was undone;
\* when the only move is undone the board is empty and player 1 is to move
C27_UndoTakesBackLastMove ==
    [][(g_last'.op = "undo" /\ g_last'.result = TRUE) =>
          LET hist == g_room.move_history
              undone == hist[Len(hist)]
          IN  /\ hist # <<>>
              /\ g_room'.move_history = SubSeq(hist, 1, Len(hist) - 1)
              /\ g_room'.game_state.board =
                     [g_room.game_state.board EXCEPT
                         ![<<undone.move.x, undone.move.y>>] = 0]
              /\ g_room'.game_state.current_player = undone.player
              /\ Len(hist) = 1 =>
                     /\ g_room'.game_state.board = EmptyBoard
                     /\ g_room'.game_state.current_player = 1]_vars

\* an undo was accepted while an earlier move stays on the board
C27_Witness ==
    /\ g_exists
    /\ g_last.op = "undo"
    /\ g_last.result = TRUE
    /\ g_room.move_history # <<>>
    /\ g_room.game_state.board # EmptyBoard

\* C28: whenever an omok room has two players and the status playing, after
\* any joins, removals, rejoins and resets, one player holds colour 1 and the
\* other colour 2
C28_PlayersHoldDifferentColours ==
    (/\ g_exists
     /\ g_room.game_type = "omok"
     /\ Len(g_room.players) = 2
     /\ g_room.status = "playing")
        => {g_room.players[1].color, g_room.players[2].color} = {1, 2}

\* C29: a disconnect and a reconnect of a session change only connection
\* state: the board, the turn, the move history, the chat history, the
\* game-ended flag, the winner and every player's session id, number and
\* colour are as before, and the reconnect_success message carries the state
\* the room has at that moment
C29_ReconnectChangesOnlyConnectionState ==
    [][g_last'.op \in {"disconnect", "reconnect", "reconnect_error"} =>
          /\ g_exists <=> g_exists'
          /\ g_exists =>
                /\ g_room'.game_state = g_room.game_state
                /\ g_room'.move_history = g_room.move_history
                /\ g_room'.chat_history = g_room.chat_history
                /\ g_room'.game_ended = g_room.game_ended
                /\ g_room'.winner = g_room.winner
                /\ Len(g_room'.players) = Len(g_room.players)
                /\ \A i \in 1..Len(g_room.players) :
                       /\ g_room'.players[i].session_id = g_room.players[i].session_id
                       /\ g_room'.players[i].player_number = g_room.players[i].player_number
                       /\ g_room'.players[i].color = g_room.players[i].color
          /\ g_last'.op = "reconnect" =>
                LET sent == g_last'.result.data
                IN  /\ sent.room.game_state = g_room'.game_state
                    /\ sent.room.chat_history = g_room'.chat_history
                    /\ sent.room.game_ended = g_room'.game_ended
                    /\ sent.room.winner = g_room'.winner
                    /\ Len(sent.move_history) = Len(g_room'.move_history)
                    /\ \A j \in 1..Len(sent.move_history) :
                           sent.move_history[j].move = g_room'.move_history[j].move
                    /\ \E i \in 1..Len(g_room'.players) :
                           /\ g_room'.players[i].is_connected
                           /\ sent.player.player_number = g_room'.players[i].player_number
                           /\ sent.player.color = g_room'.players[i].color]_vars

\* a player who was marked disconnected reconnected to a game with moves and
\* chat in it
C29_Witness ==
    /\ g_exists
    /\ g_last.op = "reconnect"
    /\ ~g_last.result.was_connected
    /\ g_room.move_history # <<>>
    /\ g_room.chat_history # <<>>

\* C32: a session id is a player of at most one room at any time: a join with
\* a session that is a player of another existing room is rejected
C32_SessionInOneRoom ==
    \A sid \in Sessions :
        Cardinality({r \in DOMAIN rooms : PlayerIdx(rooms[r], sid) # {}}) <= 1

\* the last n entries of seq (all of them when it has fewer)
LastN(seq, n) == IF Len(seq) <= n THEN seq ELSE SubSeq(seq, Len(seq) - n + 1, Len(seq))

\* C31: after any sequence of chat messages the chat history holds at most
\* the limit of entries, and they are the most recently accepted messages in
\* the order in which they were accepted
C31_ChatHistoryBounded ==
    /\ Len(ch_room.chat_history) <= MaxChatHistory
    /\ ch_room.chat_history = LastN(ch_accepted, MaxChatHistory)

\* more messages were accepted than the history keeps
C31_Witness ==
    /\ Len(ch_accepted) > MaxChatHistory
    /\ ch_last.op = "chat"

\* C33: between handler runs, a player's is_connected flag is true exactly
\* when a live connection bound to the player's session is attached to the
\* player's room
C33_ConnectedIffLiveConnection ==
    \A r \in DOMAIN rooms : \A i \in 1..Len(rooms[r].players) :
        rooms[r].players[i].is_connected <=>
            /\ r \in DOMAIN connections
            /\ \E w \in connections[r] :
                   get_session_id_by_websocket(websocket_sessions, w)
                       = rooms[r].players[i].session_id

\* C34: whenever a room exists, has at least one player and has no live
\* connection, a cleanup task is pending for it, so that no abandoned room
\* stays for ever
C34_AbandonedRoomHasTimer ==
    \A r \in DOMAIN rooms :
        (/\ rooms[r].players # <<>>
         /\ (r \notin DOMAIN connections \/ connections[r] = {}))
            => TasksOf(tasks, r) > 0

\* C35: after a room is deleted by any path (timer callback, sweep, explicit
\* delete_room) nothing of it remains: no cleanup task is pending for its id
\* and no session_to_room entry points to it, and the entries of the sessions
\* of other rooms are untouched
C35_NothingRemainsOfDeletedRoom ==
    [][\A r \in DOMAIN lc_rooms \ DOMAIN lc_rooms' :
          /\ r \notin lc_timers'
          /\ \A s \in DOMAIN lc_session_to_room' : lc_session_to_room'[s] # r
          /\ \A s \in DOMAIN lc_session_to_room :
                 lc_session_to_room[s] \in DOMAIN lc_rooms'
                     => /\ s \in DOMAIN lc_session_to_room'
                        /\ lc_session_to_room'[s] = lc_session_to_room[s]]_vars

\* C36: an undo is applied only in answer to a pending undo request of the
\* other player: an accepting undo response that arrives while no request is
\* pending, or that the requester sends, changes neither the board nor the
\* move history
C36_UndoOnlyOnPendingRequest ==
    [][(/\ g_last'.op = "undo_response"
        /\ \/ g_room.undo_requests = None
           \/ g_last'.result.sid = g_room.undo_requests) =>
          /\ g_room'.game_state = g_room.game_state
          /\ g_room'.move_history = g_room.move_history]_vars

\* C37: once a game has ended with a winner, its board and its move history
\* do not change until the game is reset, whatever the interleaving of undo
\* requests, winning move and undo responses, and while game_ended is set
\* with a winner the winning line is on the board
C37_EndedGameUnchangedUntilReset ==
    [][/\ (g_exists' /\ g_room'.game_type = "omok" /\ g_room'.game_ended
              /\ g_room'.winner # None)
            => \E c \in Cells, color \in {1, 2} :
                   /\ g_room'.game_state.board[c] = color
                   /\ check_win(g_room'.game_state.board, c[1], c[2], color)
       /\ (/\ g_exists
           /\ g_room.game_ended
           /\ g_room.winner # None
           /\ g_last'.op # "reset") =>
              /\ g_room'.game_state.board = g_room.game_state.board
              /\ g_room'.move_history = g_room.move_history]_vars

\* C38: after any subscribe, unsubscribe and clear calls, get_handler_count
\* of an event type is the number of registrations publish would invoke for
\* that type, and clear_handlers(event_type) leaves the handlers of the other
\* types and the global handlers as they were
C38_HandlerCountIsRegistrations ==
    [][/\ \A t \in EventTypes :
              get_handler_count(bus_handler_count', t)
                  = Len(HandlersOf(bus_handlers', t))
       /\ \A t \in DOMAIN bus_handlers :
              (/\ bus_handlers' = Del(bus_handlers, t)
               /\ t \in DOMAIN bus_handler_count') =>
                  /\ bus_global_handlers' = bus_global_handlers
                  /\ \A u \in EventTypes \ {t} :
                         /\ HandlersOf(bus_handlers', u)
                               = HandlersOf(bus_handlers, u)
                         /\ get_handler_count(bus_handler_count', u)
                               = get_handler_count(bus_handler_count, u)]_vars

\* the list publish collects for an event of type event_type
Collected(event_type) ==
    sort_by_priority(bus_global_handlers \o HandlersOf(bus_handlers, event_type))

\* C39: handlers subscribed or unsubscribed while a publish is in progress
\* do not change which handlers that publish invokes: the list it collected
\* from the registry when it was called stays as it is until it returns, and
\* the entries its loop calls are the entries of that list, in order
C39_PublishInvokesHandlersOfItsStart ==
    [][/\ (pub.pc = "idle" /\ pub'.pc # "idle")
             => pub'.to_run = Collected(pub'.event)
       /\ (pub.pc # "idle" /\ pub'.pc # "idle") => pub'.to_run = pub.to_run
       /\ \A k \in 1..Len(pub'.called) : pub'.called[k] = pub'.to_run[k]
       /\ pub'.pc \in {"gather", "done"} => pub'.called = pub'.to_run]_vars

\* a publish has returned after calling two entries, and the registry no
\* longer holds what it called: an entry was removed and another one added
\* while it was in progress
C39_Witness ==
    /\ pub.pc = "done"
    /\ pub.outcome = "returned"
    /\ Len(pub.called) = 2
    /\ Collected(pub.event) # pub.to_run
    /\ Len(Collected(pub.event)) = 2
    /\ Collected(pub.event)[2] # pub.to_run[2]

\* the rooms whose connection set holds the websocket
RoomsHolding(conns, websocket) ==
    {r \in DOMAIN conns : websocket \in conns[r]}

\* C40: after any add_connection, remove_connection and handle_reconnection
\* calls, every websocket that has a session binding is in exactly one room's
\* connection set, session_to_room maps every session that has such a
\* websocket to a room that holds one of them, and neither a binding nor a
\* membership remains for the websocket a call removed or replaced
C40_RegistryConsistent ==
    [][/\ \A w \in OD_Keys(cm_websocket_sessions') :
              Cardinality(RoomsHolding(cm_connections', w)) = 1
       /\ \A w \in OD_Keys(cm_websocket_sessions') :
              LET s == OD_Get(cm_websocket_sessions', w)
              IN  RoomsHolding(cm_connections', w) # {}
                  => /\ s \in DOMAIN cm_session_to_room'
                     /\ \E v \in OD_Keys(cm_websocket_sessions') :
                            /\ OD_Get(cm_websocket_sessions', v) = s
                            /\ cm_session_to_room'[s]
                                   \in RoomsHolding(cm_connections', v)
       /\ \A w \in WebSockets :
              (\/ cm_last'.op = "remove" /\ cm_last'.ws = w
               \/ /\ cm_last'.op = "reconnect"
                  /\ cm_last'.old = w
                  /\ cm_last'.ws # w)
              => /\ w \notin OD_Keys(cm_websocket_sessions')
                 /\ RoomsHolding(cm_connections', w) = {}]_vars

====
